---- MODULE Spec2Model ----
(***************************************************************************)
(* GymBuddy: repetition trackers (bicep curl, lateral raise), live-alert   *)
(* debouncing, injury-risk monitor, workout session, workout routine and   *)
(* the frame loop of main() that drives them from voice intents.           *)
(*                                                                         *)
(* Units.  Times are integer milliseconds (the code's float seconds times  *)
(* 1000); angles are integer degrees; shoulder-ear and elbow-flare         *)
(* distances and the supination ratio are integer hundredths (the code's   *)
(* floats times 100).  An optional measurement is <<>> (Python None) or    *)
(* <<v>>.  Every clock value used is a multiple of 125 ms, for which the   *)
(* code's float subtractions and comparisons are exact.                    *)
(***************************************************************************)
EXTENDS Integers, Sequences, FiniteSets, TLC

VARIABLES
    now,        \* the wall clock, time.time(), in ms
    trackers,   \* side -> tracker object (the dict handed around in main)
    session,    \* the WorkoutSession object
    routine,    \* the WorkoutRoutine object
    last,       \* the last operation called and what it returned
    obs,        \* observer: what has been seen since the observation started
    orch        \* the locals and collaborators of main(): state, log, voice, ...

vars == <<now, trackers, session, routine, last, obs, orch>>

-----------------------------------------------------------------------------
(* Helpers *)

None == <<>>
Some(v) == <<v>>
IsNone(x) == x = <<>>
Val(x) == x[1]

Min(a, b) == IF a <= b THEN a ELSE b
Max(a, b) == IF a >= b THEN a ELSE b
Abs(a) == IF a >= 0 THEN a ELSE 0 - a

RECURSIVE SumSeq(_)
SumSeq(s) == IF s = <<>> THEN 0 ELSE Head(s) + SumSeq(Tail(s))

Range(s) == {s[i] : i \in 1..Len(s)}

-----------------------------------------------------------------------------
(* Severity system: src/backend/exercises/__init__.py *)

SEV_GOOD == "good"
SEV_INFO == "info"
SEV_WARN == "warn"
SEV_BAD == "bad"

SEV_PRIORITY(sev) ==
    CASE sev = SEV_BAD -> 0
      [] sev = SEV_WARN -> 1
      [] sev = SEV_INFO -> 2
      [] sev = SEV_GOOD -> 3
      [] OTHER -> 99

\* Faulty variant of the sort: the issues are left in the order appended.
SortIssuesUnsorted(issues) == issues

\* issues.sort(key=lambda x: SEV_PRIORITY.get(x[1], 99)): Python's sort is
\* stable, so the result is the issues of key 0 in their order, then key 1, ...
SortIssues(issues) ==
    SelectSeq(issues, LAMBDA x : SEV_PRIORITY(x[2]) = 0)
    \o SelectSeq(issues, LAMBDA x : SEV_PRIORITY(x[2]) = 1)
    \o SelectSeq(issues, LAMBDA x : SEV_PRIORITY(x[2]) = 2)
    \o SelectSeq(issues, LAMBDA x : SEV_PRIORITY(x[2]) = 3)
    \o SelectSeq(issues, LAMBDA x : SEV_PRIORITY(x[2]) = 99)

-----------------------------------------------------------------------------
(* BaseTracker: src/backend/exercises/__init__.py *)

INJURY_CRITICAL_SCORE == 25
INJURY_BAD_SCORE == 40
INJURY_CONSECUTIVE_LIMIT == 3
LIVE_GRACE == 350
FEEDBACK_TTL == 5000

MSG_INJURY_CRITICAL ==
    "Warning! That rep had very poor form and could cause injury. Lower the weight or fix your form before continuing."
MSG_INJURY_STREAK ==
    "Careful! Multiple reps with bad form. You risk hurting yourself. Take a break or reduce the weight."

\* The fields BaseTracker.__init__ sets.
BaseFields(side) ==
    [ side |-> side,
      reps |-> 0,
      cur_elbow |-> 180,
      live_triggers |-> <<>>,     \* dict msg -> (sev, t), in insertion order
      active_feedback |-> <<>>,
      feedback_expiry |-> 0,
      last_score |-> 0,
      rep_scores |-> <<>>,
      speech_queue |-> <<>>,
      consecutive_bad |-> 0,
      injury_warning |-> FALSE ]

\* Faulty variant of _trigger: every call appends a new entry.
TriggerAppend(lt, msg, sev, t) == Append(lt, <<msg, sev, t>>)

\* self._live_triggers[msg] = (sev, now): a dict assignment replaces the
\* value of an existing key in place and appends a new key at the end.
Trigger(lt, msg, sev, t) ==
    IF \E i \in 1..Len(lt) : lt[i][1] = msg
    THEN [i \in 1..Len(lt) |-> IF lt[i][1] = msg THEN <<msg, sev, t>> ELSE lt[i]]
    ELSE Append(lt, <<msg, sev, t>>)

\* Conditional trigger, for the chains of ifs in update().
TriggerIf(c, lt, msg, sev, t) == IF c THEN Trigger(lt, msg, sev, t) ELSE lt

\* The test of get_live_alerts: now - last_t <= LIVE_GRACE.
Live(e, t) == t - e[3] <= LIVE_GRACE

\* get_live_alerts(now): the (msg, sev) of the live entries, in dict order;
\* the expired entries are deleted.
ActiveAlerts(lt, t) ==
    LET live == SelectSeq(lt, LAMBDA e : Live(e, t))
    IN [i \in 1..Len(live) |-> <<live[i][1], live[i][2]>>]
EvictExpired(lt, t) == SelectSeq(lt, LAMBDA e : Live(e, t))

\* get_feedback(now)
GetFeedback(t, tm) == IF tm < t.feedback_expiry THEN t.active_feedback ELSE <<>>

\* Faulty variant of _build_speech_queue: every issue is voiced, whatever
\* its severity.
BuildSpeechQueueVoicesAll(issues) ==
    LET voiced == [i \in 1..Len(issues) |-> issues[i][1]]
    IN IF voiced # <<>> THEN voiced ELSE <<"Good job!">>

\* _build_speech_queue(issues)
BuildSpeechQueue(issues) ==
    LET v == SelectSeq(issues, LAMBDA x : x[2] \in {SEV_BAD, SEV_WARN})
        voiced == [i \in 1..Len(v) |-> v[i][1]]
    IN IF voiced # <<>> THEN voiced ELSE <<"Good job!">>

\* _check_injury_risk()
CheckInjuryRisk(t) ==
    LET score == t.last_score
        cb == IF score <= INJURY_BAD_SCORE
              THEN t.consecutive_bad + 1
              ELSE Max(0, t.consecutive_bad - 1)
    IN IF score <= INJURY_CRITICAL_SCORE
       THEN [t EXCEPT !.consecutive_bad = cb, !.injury_warning = TRUE,
                      !.speech_queue = <<MSG_INJURY_CRITICAL>> \o @]
       ELSE IF cb >= INJURY_CONSECUTIVE_LIMIT
       THEN [t EXCEPT !.consecutive_bad = cb, !.injury_warning = TRUE,
                      !.speech_queue = <<MSG_INJURY_STREAK>> \o @]
       ELSE [t EXCEPT !.consecutive_bad = cb, !.injury_warning = FALSE]

\* _update_shrug_ref(sh_ear), the same code in both trackers.  sh_ear is in
\* hundredths: sh_ear < 0.01 is sh_ear < 1, and
\* sh_ear < ref * SHRUG_RATIO_WARN is 100 * sh_ear < ref * 65.
SHRUG_SAMPLES == 30
SHRUG_RATIO_WARN == 65

RECURSIVE MaxSeq(_)
MaxSeq(s) == IF Len(s) = 1 THEN s[1] ELSE Max(Head(s), MaxSeq(Tail(s)))

\* Faulty variant of _update_shrug_ref: the reference keeps following the
\* maximum after the calibration samples are in.
UpdateShrugRefNoFreeze(t, sh_ear) ==
    IF IsNone(sh_ear) \/ Val(sh_ear) < 1 THEN t
    ELSE IF Len(t.sh_ear_samples) < SHRUG_SAMPLES
    THEN LET s == Append(t.sh_ear_samples, Val(sh_ear))
         IN [t EXCEPT !.sh_ear_samples = s, !.ref_sh_ear = MaxSeq(s)]
    ELSE IF t.ref_sh_ear > 0 /\ 100 * Val(sh_ear) < t.ref_sh_ear * SHRUG_RATIO_WARN
    THEN [t EXCEPT !.shrug_detected = TRUE]
    ELSE [t EXCEPT !.ref_sh_ear = Max(@, Val(sh_ear))]

UpdateShrugRef(t, sh_ear) ==
    IF IsNone(sh_ear) \/ Val(sh_ear) < 1 THEN t
    ELSE IF Len(t.sh_ear_samples) < SHRUG_SAMPLES
    THEN LET s == Append(t.sh_ear_samples, Val(sh_ear))
         IN [t EXCEPT !.sh_ear_samples = s, !.ref_sh_ear = MaxSeq(s)]
    ELSE IF t.ref_sh_ear > 0 /\ 100 * Val(sh_ear) < t.ref_sh_ear * SHRUG_RATIO_WARN
    THEN [t EXCEPT !.shrug_detected = TRUE]
    ELSE t

PHASE_DOWN == "down"
PHASE_UP == "up"

\* One scoring check's outcome: the issues it appends and what it deducts.
NoIssue == [iss |-> <<>>, ded |-> 0]
Issue(msg, sev, w) == [iss |-> <<<<msg, sev>>>>, ded |-> w]

-----------------------------------------------------------------------------
(* CurlTracker: src/backend/exercises/bicep_curl.py *)

CURL_TOP == 60
CURL_BOTTOM == 140

W_ELBOW_PIN == 20
W_LEAN == 15
W_ROM_TOP == 10
W_ROM_BOTTOM == 10
W_SHRUG == 10
W_FLARE == 10
W_TEMPO_CON == 7
W_TEMPO_ECC == 8
W_SUPINATION == 10

SWING_OK == 15
SWING_WARN == 30
SWING_BAD == 45
LEAN_OK == 10
LEAN_WARN == 18
LEAN_BAD == 28
ROM_TOP_GOOD == 50
ROM_TOP_OK == 70
ROM_BOTTOM_GOOD == 155
ROM_BOTTOM_OK == 130
FLARE_OK == 5
FLARE_WARN == 9
SUP_GOOD == 35
SUP_NEUTRAL == 5
CON_MIN == 600
CON_MAX == 3000
ECC_MIN == 1000
ECC_MAX == 4500

\* CurlTracker.__init__
NewCurlTracker(side) ==
    [ kind |-> "bicep_curl",
      phase |-> PHASE_DOWN,
      min_elbow |-> 180,
      max_elbow |-> 0,
      peak_swing |-> 0,
      peak_lean |-> 0,
      peak_wrist_dev |-> 0,
      peak_flare |-> 0,
      shrug_detected |-> FALSE,
      min_supination |-> 100,
      phase_start |-> 0,
      con_time |-> 0,
      ref_sh_ear |-> 0,
      sh_ear_samples |-> <<>> ] @@ BaseFields(side)

\* Faulty variant of the checks: an info-level ROM issue costs the full weight.
CurlChecksFullRom(t, ecc_time) ==
    << IF t.peak_swing > SWING_BAD
         THEN Issue("Elbow swinging a lot - pin it to your side", SEV_BAD, W_ELBOW_PIN)
       ELSE IF t.peak_swing > SWING_WARN
         THEN Issue("Elbow drifting forward - keep it pinned", SEV_WARN, W_ELBOW_PIN \div 2)
       ELSE IF t.peak_swing > SWING_OK
         THEN Issue("Slight elbow drift - try to keep it tighter", SEV_INFO, W_ELBOW_PIN \div 4)
       ELSE NoIssue,
       IF t.peak_lean > LEAN_BAD
         THEN Issue("Too much body lean - you're using momentum", SEV_BAD, W_LEAN)
       ELSE IF t.peak_lean > LEAN_WARN
         THEN Issue("Leaning back a bit - brace your core", SEV_WARN, W_LEAN \div 2)
       ELSE IF t.peak_lean > LEAN_OK
         THEN Issue("Minor torso sway detected", SEV_INFO, W_LEAN \div 4)
       ELSE NoIssue,
       IF t.min_elbow > ROM_TOP_OK
         THEN Issue("Curl higher - squeeze at the top", SEV_WARN, W_ROM_TOP)
       ELSE IF t.min_elbow > ROM_TOP_GOOD
         THEN Issue("Almost full contraction - try to squeeze more", SEV_INFO, W_ROM_TOP)
       ELSE NoIssue,
       IF t.max_elbow < ROM_BOTTOM_OK
         THEN Issue("Extend your arm more at the bottom", SEV_WARN, W_ROM_BOTTOM)
       ELSE IF t.max_elbow < ROM_BOTTOM_GOOD
         THEN Issue("Slightly short extension - straighten a bit more", SEV_INFO, W_ROM_BOTTOM)
       ELSE NoIssue,
       IF t.shrug_detected
         THEN Issue("Shoulder hiking up - relax your traps", SEV_WARN, W_SHRUG)
       ELSE NoIssue,
       IF t.peak_flare > FLARE_WARN
         THEN Issue("Elbow flaring out - keep it tucked in", SEV_WARN, W_FLARE)
       ELSE IF t.peak_flare > FLARE_OK
         THEN Issue("Slight elbow flare - tuck it closer", SEV_INFO, W_FLARE \div 2)
       ELSE NoIssue,
       IF t.min_supination < SUP_NEUTRAL
         THEN Issue("Rotate palm up - supinate your grip", SEV_WARN, W_SUPINATION)
       ELSE IF t.min_supination < SUP_GOOD
         THEN Issue("Grip slightly neutral - supinate more", SEV_INFO, W_SUPINATION \div 2)
       ELSE NoIssue,
       IF t.con_time > 0 /\ t.con_time < CON_MIN
         THEN Issue("Lifting too fast - slow down", SEV_WARN, W_TEMPO_CON)
       ELSE IF t.con_time > 0 /\ t.con_time > CON_MAX
         THEN Issue("Lifting too slow - may lose tension", SEV_WARN, W_TEMPO_CON \div 2)
       ELSE NoIssue,
       IF ecc_time > 0 /\ ecc_time < ECC_MIN
         THEN Issue("Lowering too fast - control the negative", SEV_WARN, W_TEMPO_ECC)
       ELSE IF ecc_time > 0 /\ ecc_time > ECC_MAX
         THEN Issue("Lowering too slow", SEV_WARN, W_TEMPO_ECC \div 3)
       ELSE NoIssue >>

\* Faulty variant of the checks: a phase time of 0 counts as too fast.
CurlChecksTempoUnguarded(t, ecc_time) ==
    << IF t.peak_swing > SWING_BAD
         THEN Issue("Elbow swinging a lot - pin it to your side", SEV_BAD, W_ELBOW_PIN)
       ELSE IF t.peak_swing > SWING_WARN
         THEN Issue("Elbow drifting forward - keep it pinned", SEV_WARN, W_ELBOW_PIN \div 2)
       ELSE IF t.peak_swing > SWING_OK
         THEN Issue("Slight elbow drift - try to keep it tighter", SEV_INFO, W_ELBOW_PIN \div 4)
       ELSE NoIssue,
       IF t.peak_lean > LEAN_BAD
         THEN Issue("Too much body lean - you're using momentum", SEV_BAD, W_LEAN)
       ELSE IF t.peak_lean > LEAN_WARN
         THEN Issue("Leaning back a bit - brace your core", SEV_WARN, W_LEAN \div 2)
       ELSE IF t.peak_lean > LEAN_OK
         THEN Issue("Minor torso sway detected", SEV_INFO, W_LEAN \div 4)
       ELSE NoIssue,
       IF t.min_elbow > ROM_TOP_OK
         THEN Issue("Curl higher - squeeze at the top", SEV_WARN, W_ROM_TOP)
       ELSE IF t.min_elbow > ROM_TOP_GOOD
         THEN Issue("Almost full contraction - try to squeeze more", SEV_INFO, W_ROM_TOP \div 2)
       ELSE NoIssue,
       IF t.max_elbow < ROM_BOTTOM_OK
         THEN Issue("Extend your arm more at the bottom", SEV_WARN, W_ROM_BOTTOM)
       ELSE IF t.max_elbow < ROM_BOTTOM_GOOD
         THEN Issue("Slightly short extension - straighten a bit more", SEV_INFO, W_ROM_BOTTOM \div 2)
       ELSE NoIssue,
       IF t.shrug_detected
         THEN Issue("Shoulder hiking up - relax your traps", SEV_WARN, W_SHRUG)
       ELSE NoIssue,
       IF t.peak_flare > FLARE_WARN
         THEN Issue("Elbow flaring out - keep it tucked in", SEV_WARN, W_FLARE)
       ELSE IF t.peak_flare > FLARE_OK
         THEN Issue("Slight elbow flare - tuck it closer", SEV_INFO, W_FLARE \div 2)
       ELSE NoIssue,
       IF t.min_supination < SUP_NEUTRAL
         THEN Issue("Rotate palm up - supinate your grip", SEV_WARN, W_SUPINATION)
       ELSE IF t.min_supination < SUP_GOOD
         THEN Issue("Grip slightly neutral - supinate more", SEV_INFO, W_SUPINATION \div 2)
       ELSE NoIssue,
       IF t.con_time < CON_MIN
         THEN Issue("Lifting too fast - slow down", SEV_WARN, W_TEMPO_CON)
       ELSE IF t.con_time > 0 /\ t.con_time > CON_MAX
         THEN Issue("Lifting too slow - may lose tension", SEV_WARN, W_TEMPO_CON \div 2)
       ELSE NoIssue,
       IF ecc_time < ECC_MIN
         THEN Issue("Lowering too fast - control the negative", SEV_WARN, W_TEMPO_ECC)
       ELSE IF ecc_time > 0 /\ ecc_time > ECC_MAX
         THEN Issue("Lowering too slow", SEV_WARN, W_TEMPO_ECC \div 3)
       ELSE NoIssue >>

\* The ten scoring checks of CurlTracker._finish_rep, in the code's order.
CurlChecks(t, ecc_time) ==
    << IF t.peak_swing > SWING_BAD
         THEN Issue("Elbow swinging a lot - pin it to your side", SEV_BAD, W_ELBOW_PIN)
       ELSE IF t.peak_swing > SWING_WARN
         THEN Issue("Elbow drifting forward - keep it pinned", SEV_WARN, W_ELBOW_PIN \div 2)
       ELSE IF t.peak_swing > SWING_OK
         THEN Issue("Slight elbow drift - try to keep it tighter", SEV_INFO, W_ELBOW_PIN \div 4)
       ELSE NoIssue,
       IF t.peak_lean > LEAN_BAD
         THEN Issue("Too much body lean - you're using momentum", SEV_BAD, W_LEAN)
       ELSE IF t.peak_lean > LEAN_WARN
         THEN Issue("Leaning back a bit - brace your core", SEV_WARN, W_LEAN \div 2)
       ELSE IF t.peak_lean > LEAN_OK
         THEN Issue("Minor torso sway detected", SEV_INFO, W_LEAN \div 4)
       ELSE NoIssue,
       IF t.min_elbow > ROM_TOP_OK
         THEN Issue("Curl higher - squeeze at the top", SEV_WARN, W_ROM_TOP)
       ELSE IF t.min_elbow > ROM_TOP_GOOD
         THEN Issue("Almost full contraction - try to squeeze more", SEV_INFO, W_ROM_TOP \div 2)
       ELSE NoIssue,
       IF t.max_elbow < ROM_BOTTOM_OK
         THEN Issue("Extend your arm more at the bottom", SEV_WARN, W_ROM_BOTTOM)
       ELSE IF t.max_elbow < ROM_BOTTOM_GOOD
         THEN Issue("Slightly short extension - straighten a bit more", SEV_INFO, W_ROM_BOTTOM \div 2)
       ELSE NoIssue,
       IF t.shrug_detected
         THEN Issue("Shoulder hiking up - relax your traps", SEV_WARN, W_SHRUG)
       ELSE NoIssue,
       IF t.peak_flare > FLARE_WARN
         THEN Issue("Elbow flaring out - keep it tucked in", SEV_WARN, W_FLARE)
       ELSE IF t.peak_flare > FLARE_OK
         THEN Issue("Slight elbow flare - tuck it closer", SEV_INFO, W_FLARE \div 2)
       ELSE NoIssue,
       IF t.min_supination < SUP_NEUTRAL
         THEN Issue("Rotate palm up - supinate your grip", SEV_WARN, W_SUPINATION)
       ELSE IF t.min_supination < SUP_GOOD
         THEN Issue("Grip slightly neutral - supinate more", SEV_INFO, W_SUPINATION \div 2)
       ELSE NoIssue,
       IF t.con_time > 0 /\ t.con_time < CON_MIN
         THEN Issue("Lifting too fast - slow down", SEV_WARN, W_TEMPO_CON)
       ELSE IF t.con_time > 0 /\ t.con_time > CON_MAX
         THEN Issue("Lifting too slow - may lose tension", SEV_WARN, W_TEMPO_CON \div 2)
       ELSE NoIssue,
       IF ecc_time > 0 /\ ecc_time < ECC_MIN
         THEN Issue("Lowering too fast - control the negative", SEV_WARN, W_TEMPO_ECC)
       ELSE IF ecc_time > 0 /\ ecc_time > ECC_MAX
         THEN Issue("Lowering too slow", SEV_WARN, W_TEMPO_ECC \div 3)
       ELSE NoIssue >>

\* The issues appended by a list of checks, in order, and the sum deducted.
RECURSIVE ChecksIssues(_)
ChecksIssues(cs) == IF cs = <<>> THEN <<>> ELSE Head(cs).iss \o ChecksIssues(Tail(cs))
RECURSIVE ChecksDeduction(_)
ChecksDeduction(cs) == IF cs = <<>> THEN 0 ELSE Head(cs).ded + ChecksDeduction(Tail(cs))

\* score = max(score, 0)
ClampScore(score) == Max(score, 0)

\* Faulty variant of the shared part of _finish_rep: the score is not
\* appended to the history.
StoreRepNoHistory(t, checks, tm) ==
    LET score == ClampScore(100 - ChecksDeduction(checks))
        issues == SortIssues(ChecksIssues(checks))
    IN [t EXCEPT !.last_score = score,
                 !.active_feedback =
                     IF issues = <<>> THEN <<<<"Perfect rep!", SEV_GOOD>>>> ELSE issues,
                 !.feedback_expiry = tm + FEEDBACK_TTL,
                 !.speech_queue = BuildSpeechQueue(issues)]

\* The part of _finish_rep shared by both trackers (bicep_curl.py 252-264,
\* lateral_raise.py 213-225): clamp and store the score, sort the issues,
\* set the feedback and the speech queue.
StoreRep(t, checks, tm) ==
    LET score == ClampScore(100 - ChecksDeduction(checks))
        issues == SortIssues(ChecksIssues(checks))
    IN [t EXCEPT !.last_score = score,
                 !.rep_scores = Append(@, score),
                 !.active_feedback =
                     IF issues = <<>> THEN <<<<"Perfect rep!", SEV_GOOD>>>> ELSE issues,
                 !.feedback_expiry = tm + FEEDBACK_TTL,
                 !.speech_queue = BuildSpeechQueue(issues)]

\* Faulty variant of _finish_rep: the peak lean is not reset.
CurlFinishRepKeepsLean(t, tm, ecc_time) ==
    LET t1 == [t EXCEPT !.phase = PHASE_DOWN, !.reps = @ + 1, !.phase_start = tm]
        t2 == StoreRep(t1, CurlChecks(t1, ecc_time), tm)
    IN [t2 EXCEPT !.peak_swing = 0, !.min_elbow = 180,
                  !.max_elbow = 0, !.peak_wrist_dev = 0, !.peak_flare = 0,
                  !.shrug_detected = FALSE, !.min_supination = 100,
                  !.con_time = 0]

\* CurlTracker._finish_rep(now, ecc_time)
CurlFinishRep(t, tm, ecc_time) ==
    LET t1 == [t EXCEPT !.phase = PHASE_DOWN, !.reps = @ + 1, !.phase_start = tm]
        t2 == StoreRep(t1, CurlChecks(t1, ecc_time), tm)
    IN [t2 EXCEPT !.peak_swing = 0, !.peak_lean = 0, !.min_elbow = 180,
                  !.max_elbow = 0, !.peak_wrist_dev = 0, !.peak_flare = 0,
                  !.shrug_detected = FALSE, !.min_supination = 100,
                  !.con_time = 0]

\* Faulty variant of the live alerts: the lean alerts follow the peak lean of
\* the running rep in place of the lean of the frame.
CurlLiveAlertsPerRep(t, f, tm) ==
    LET l1 == IF f.shoulder > SWING_BAD
                THEN Trigger(t.live_triggers, "Pin elbow to side!", SEV_BAD, tm)
              ELSE IF f.shoulder > SWING_WARN
                THEN Trigger(t.live_triggers, "Elbow drifting", SEV_WARN, tm)
              ELSE t.live_triggers
        l2 == IF t.peak_lean > LEAN_BAD
                THEN Trigger(l1, "Stop leaning back!", SEV_BAD, tm)
              ELSE IF t.peak_lean > LEAN_WARN
                THEN Trigger(l1, "Brace your core", SEV_WARN, tm)
              ELSE l1
        l3 == TriggerIf(t.shrug_detected, l2, "Relax traps!", SEV_WARN, tm)
        l4 == TriggerIf(~IsNone(f.flare) /\ Val(f.flare) > FLARE_WARN,
                        l3, "Tuck elbow in!", SEV_WARN, tm)
        l5 == TriggerIf(~IsNone(f.sup) /\ Val(f.sup) < SUP_NEUTRAL,
                        l4, "Supinate - rotate palm up!", SEV_WARN, tm)
    IN [t EXCEPT !.live_triggers = l5]

\* The live mid-rep alerts of CurlTracker.update (lines 130-149).
CurlLiveAlerts(t, f, tm) ==
    LET l1 == IF f.shoulder > SWING_BAD
                THEN Trigger(t.live_triggers, "Pin elbow to side!", SEV_BAD, tm)
              ELSE IF f.shoulder > SWING_WARN
                THEN Trigger(t.live_triggers, "Elbow drifting", SEV_WARN, tm)
              ELSE t.live_triggers
        l2 == IF IsNone(f.lean) THEN l1
              ELSE IF Val(f.lean) > LEAN_BAD
                THEN Trigger(l1, "Stop leaning back!", SEV_BAD, tm)
              ELSE IF Val(f.lean) > LEAN_WARN
                THEN Trigger(l1, "Brace your core", SEV_WARN, tm)
              ELSE l1
        l3 == TriggerIf(t.shrug_detected, l2, "Relax traps!", SEV_WARN, tm)
        l4 == TriggerIf(~IsNone(f.flare) /\ Val(f.flare) > FLARE_WARN,
                        l3, "Tuck elbow in!", SEV_WARN, tm)
        l5 == TriggerIf(~IsNone(f.sup) /\ Val(f.sup) < SUP_NEUTRAL,
                        l4, "Supinate - rotate palm up!", SEV_WARN, tm)
    IN [t EXCEPT !.live_triggers = l5]

\* Faulty variant of the transitions: a single threshold, CURL_TOP, both ways.
CurlPhaseNoHysteresis(t, elbow, tm) ==
    IF t.phase = PHASE_DOWN /\ elbow < CURL_TOP
    THEN [t EXCEPT !.phase = PHASE_UP,
                   !.con_time = IF t.phase_start # 0 THEN tm - t.phase_start ELSE 0,
                   !.phase_start = tm]
    ELSE IF t.phase = PHASE_UP /\ elbow > CURL_TOP
    THEN CurlFinishRep(t, tm, IF t.phase_start # 0 THEN tm - t.phase_start ELSE 0)
    ELSE t

\* Faulty variant of the transitions: the open threshold itself counts.
CurlPhaseInclusive(t, elbow, tm) ==
    IF t.phase = PHASE_DOWN /\ elbow < CURL_TOP
    THEN [t EXCEPT !.phase = PHASE_UP,
                   !.con_time = IF t.phase_start # 0 THEN tm - t.phase_start ELSE 0,
                   !.phase_start = tm]
    ELSE IF t.phase = PHASE_UP /\ elbow >= CURL_BOTTOM
    THEN CurlFinishRep(t, tm, IF t.phase_start # 0 THEN tm - t.phase_start ELSE 0)
    ELSE t

\* The phase transitions of CurlTracker.update (lines 151-158).
CurlPhase(t, elbow, tm) ==
    IF t.phase = PHASE_DOWN /\ elbow < CURL_TOP
    THEN [t EXCEPT !.phase = PHASE_UP,
                   !.con_time = IF t.phase_start # 0 THEN tm - t.phase_start ELSE 0,
                   !.phase_start = tm]
    ELSE IF t.phase = PHASE_UP /\ elbow > CURL_BOTTOM
    THEN CurlFinishRep(t, tm, IF t.phase_start # 0 THEN tm - t.phase_start ELSE 0)
    ELSE t

\* Faulty variant of update: a frame without a lean measurement forgets the
\* peak lean of the rep.
CurlUpdateNullResets(t, f, tm) ==
    LET t1 == [t EXCEPT
                 !.cur_elbow = f.elbow,
                 !.min_elbow = Min(@, f.elbow),
                 !.max_elbow = Max(@, f.elbow),
                 !.peak_swing = Max(@, f.shoulder),
                 !.peak_lean = IF IsNone(f.lean) THEN 0 ELSE Max(@, Val(f.lean)),
                 !.peak_wrist_dev =
                     IF IsNone(f.wrist) THEN @ ELSE Max(@, Abs(180 - Val(f.wrist))),
                 !.peak_flare = IF IsNone(f.flare) THEN @ ELSE Max(@, Val(f.flare)),
                 !.min_supination = IF IsNone(f.sup) THEN @ ELSE Min(@, Val(f.sup))]
        t2 == UpdateShrugRef(t1, f.sh_ear)
        t3 == CurlLiveAlerts(t2, f, tm)
    IN CurlPhase(t3, f.elbow, tm)

\* Faulty variant of update: the frame's elbow angle enters the minimum and
\* the maximum after the phase transition, so a rep is scored without it.
CurlUpdateExtremesLate(t, f, tm) ==
    LET t1 == [t EXCEPT
                 !.cur_elbow = f.elbow,
                 !.peak_swing = Max(@, f.shoulder),
                 !.peak_lean = IF IsNone(f.lean) THEN @ ELSE Max(@, Val(f.lean)),
                 !.peak_wrist_dev =
                     IF IsNone(f.wrist) THEN @ ELSE Max(@, Abs(180 - Val(f.wrist))),
                 !.peak_flare = IF IsNone(f.flare) THEN @ ELSE Max(@, Val(f.flare)),
                 !.min_supination = IF IsNone(f.sup) THEN @ ELSE Min(@, Val(f.sup))]
        t2 == UpdateShrugRef(t1, f.sh_ear)
        t3 == CurlLiveAlerts(t2, f, tm)
    IN [CurlPhase(t3, f.elbow, tm) EXCEPT
          !.min_elbow = Min(@, f.elbow), !.max_elbow = Max(@, f.elbow)]

\* CurlTracker.update(elbow_angle, shoulder_angle, body_lean, wrist_angle,
\*                    shoulder_ear_dist, elbow_flare_dist, supination, now)
\* f is the frame's measurements.
CurlUpdate(t, f, tm) ==
    LET t1 == [t EXCEPT
                 !.cur_elbow = f.elbow,
                 !.min_elbow = Min(@, f.elbow),
                 !.max_elbow = Max(@, f.elbow),
                 !.peak_swing = Max(@, f.shoulder),
                 !.peak_lean = IF IsNone(f.lean) THEN @ ELSE Max(@, Val(f.lean)),
                 !.peak_wrist_dev =
                     IF IsNone(f.wrist) THEN @ ELSE Max(@, Abs(180 - Val(f.wrist))),
                 !.peak_flare = IF IsNone(f.flare) THEN @ ELSE Max(@, Val(f.flare)),
                 !.min_supination = IF IsNone(f.sup) THEN @ ELSE Min(@, Val(f.sup))]
        t2 == UpdateShrugRef(t1, f.sh_ear)
        t3 == CurlLiveAlerts(t2, f, tm)
    IN CurlPhase(t3, f.elbow, tm)

-----------------------------------------------------------------------------
(* LateralRaiseTracker: src/exercises/lateral_raise.py.  The constants that *)
(* share a name with CurlTracker's carry the prefix RAISE_.                 *)

RAISE_TOP == 70
RAISE_BOTTOM == 30

W_HEIGHT == 25
W_ELBOW_BEND == 15
RAISE_W_SHRUG == 15
RAISE_W_LEAN == 15
W_OVER_RAISE == 10
W_TEMPO_UP == 10
W_TEMPO_DOWN == 10

HEIGHT_GOOD == 75
HEIGHT_OK == 55
OVER_RAISE == 110
ELBOW_TOO_BENT == 120
ELBOW_SLIGHTLY_BENT == 145
ELBOW_TOO_STRAIGHT == 175
RAISE_LEAN_OK == 8
RAISE_LEAN_WARN == 15
RAISE_LEAN_BAD == 25
UP_MIN == 600
UP_MAX == 3000
DOWN_MIN == 800
DOWN_MAX == 4000

\* LateralRaiseTracker.__init__
NewRaiseTracker(side) ==
    [ kind |-> "lateral_raise",
      phase |-> PHASE_DOWN,
      peak_shoulder_angle |-> 0,
      min_elbow_angle |-> 180,
      peak_lean |-> 0,
      shrug_detected |-> FALSE,
      phase_start |-> 0,
      up_time |-> 0,
      ref_sh_ear |-> 0,
      sh_ear_samples |-> <<>>,
      cur_shoulder_angle |-> 0 ] @@ BaseFields(side)

\* The seven scoring checks of LateralRaiseTracker._finish_rep, in order.
RaiseChecks(t, down_time) ==
    << IF t.peak_shoulder_angle < HEIGHT_OK
         THEN Issue("Raise arms higher - reach shoulder level", SEV_BAD, W_HEIGHT)
       ELSE IF t.peak_shoulder_angle < HEIGHT_GOOD
         THEN Issue("Almost there - raise a bit higher", SEV_WARN, W_HEIGHT \div 2)
       ELSE NoIssue,
       IF t.peak_shoulder_angle > OVER_RAISE
         THEN Issue("Arms too high - stop at shoulder level", SEV_WARN, W_OVER_RAISE)
       ELSE NoIssue,
       IF t.min_elbow_angle < ELBOW_TOO_BENT
         THEN Issue("Arms too bent - extend elbows more", SEV_WARN, W_ELBOW_BEND)
       ELSE IF t.min_elbow_angle < ELBOW_SLIGHTLY_BENT
         THEN Issue("Elbows bending a bit much", SEV_INFO, W_ELBOW_BEND \div 3)
       ELSE IF t.min_elbow_angle > ELBOW_TOO_STRAIGHT
         THEN Issue("Don't lock elbows - keep a slight bend", SEV_INFO, W_ELBOW_BEND \div 4)
       ELSE NoIssue,
       IF t.shrug_detected
         THEN Issue("Traps taking over - relax shoulders down", SEV_WARN, RAISE_W_SHRUG)
       ELSE NoIssue,
       IF t.peak_lean > RAISE_LEAN_BAD
         THEN Issue("Too much body sway - using momentum", SEV_BAD, RAISE_W_LEAN)
       ELSE IF t.peak_lean > RAISE_LEAN_WARN
         THEN Issue("Slight lean - tighten your core", SEV_WARN, RAISE_W_LEAN \div 2)
       ELSE IF t.peak_lean > RAISE_LEAN_OK
         THEN Issue("Minor sway detected", SEV_INFO, RAISE_W_LEAN \div 4)
       ELSE NoIssue,
       IF t.up_time > 0 /\ t.up_time < UP_MIN
         THEN Issue("Raising too fast - slow down", SEV_WARN, W_TEMPO_UP)
       ELSE IF t.up_time > 0 /\ t.up_time > UP_MAX
         THEN Issue("Raising too slow", SEV_INFO, W_TEMPO_UP \div 3)
       ELSE NoIssue,
       IF down_time > 0 /\ down_time < DOWN_MIN
         THEN Issue("Lowering too fast - control it", SEV_WARN, W_TEMPO_DOWN)
       ELSE IF down_time > 0 /\ down_time > DOWN_MAX
         THEN Issue("Lowering too slow", SEV_INFO, W_TEMPO_DOWN \div 3)
       ELSE NoIssue >>

\* LateralRaiseTracker._finish_rep(now, down_time)
RaiseFinishRep(t, tm, down_time) ==
    LET t1 == [t EXCEPT !.phase = PHASE_DOWN, !.reps = @ + 1, !.phase_start = tm]
        t2 == StoreRep(t1, RaiseChecks(t1, down_time), tm)
    IN [t2 EXCEPT !.peak_shoulder_angle = 0, !.min_elbow_angle = 180,
                  !.peak_lean = 0, !.shrug_detected = FALSE, !.up_time = 0]

\* The live mid-rep alerts of LateralRaiseTracker.update (lines 104-120).
RaiseLiveAlerts(t, f, tm) ==
    LET l1 == TriggerIf(f.shoulder > OVER_RAISE, t.live_triggers,
                        "Too high! Stop at shoulder level", SEV_BAD, tm)
        l2 == IF IsNone(f.lean) THEN l1
              ELSE IF Val(f.lean) > RAISE_LEAN_BAD
                THEN Trigger(l1, "Stop swaying!", SEV_BAD, tm)
              ELSE IF Val(f.lean) > RAISE_LEAN_WARN
                THEN Trigger(l1, "Brace your core", SEV_WARN, tm)
              ELSE l1
        l3 == TriggerIf(t.shrug_detected, l2, "Relax traps - don't shrug!", SEV_WARN, tm)
        l4 == IF f.elbow < ELBOW_TOO_BENT
                THEN Trigger(l3, "Straighten arms more!", SEV_WARN, tm)
              ELSE IF f.elbow > ELBOW_TOO_STRAIGHT
                THEN Trigger(l3, "Bend elbows slightly!", SEV_WARN, tm)
              ELSE l3
    IN [t EXCEPT !.live_triggers = l4]

\* The phase transitions of LateralRaiseTracker.update (lines 122-129).
RaisePhase(t, shoulder, tm) ==
    IF t.phase = PHASE_DOWN /\ shoulder > RAISE_TOP
    THEN [t EXCEPT !.phase = PHASE_UP,
                   !.up_time = IF t.phase_start # 0 THEN tm - t.phase_start ELSE 0,
                   !.phase_start = tm]
    ELSE IF t.phase = PHASE_UP /\ shoulder < RAISE_BOTTOM
    THEN RaiseFinishRep(t, tm, IF t.phase_start # 0 THEN tm - t.phase_start ELSE 0)
    ELSE t

\* LateralRaiseTracker.update(shoulder_angle, elbow_angle, body_lean,
\*                            shoulder_ear_dist, now)
RaiseUpdate(t, f, tm) ==
    LET t1 == [t EXCEPT
                 !.cur_shoulder_angle = f.shoulder,
                 !.peak_shoulder_angle = Max(@, f.shoulder),
                 !.min_elbow_angle = Min(@, f.elbow),
                 !.peak_lean = IF IsNone(f.lean) THEN @ ELSE Max(@, Val(f.lean))]
        t2 == UpdateShrugRef(t1, f.sh_ear)
        t3 == RaiseLiveAlerts(t2, f, tm)
    IN RaisePhase(t3, f.shoulder, tm)

\* tracker.update(...), dispatched on the tracker's class.
TrackerUpdate(t, f, tm) ==
    IF t.kind = "bicep_curl" THEN CurlUpdate(t, f, tm) ELSE RaiseUpdate(t, f, tm)

\* The primary angle of a frame for a tracker, and on which side of the
\* hysteresis band it lies.
PrimaryAngle(t, f) == IF t.kind = "bicep_curl" THEN f.elbow ELSE f.shoulder
PastClosed(t, f) ==
    IF t.kind = "bicep_curl" THEN f.elbow < CURL_TOP ELSE f.shoulder > RAISE_TOP
PastOpen(t, f) ==
    IF t.kind = "bicep_curl" THEN f.elbow > CURL_BOTTOM ELSE f.shoulder < RAISE_BOTTOM

-----------------------------------------------------------------------------
(* ExerciseConfig, WorkoutRoutine: src/pose_tracker.py 354-427 *)

\* ExerciseConfig(exercise, sets, reps, rest_seconds); rest_seconds in ms.
ExerciseConfig(exercise, sets, reps, rest) ==
    [exercise |-> exercise, sets |-> sets, reps |-> reps, rest_seconds |-> rest]

\* WorkoutRoutine.__init__(exercises)
NewRoutine(exercises) ==
    [ queue |-> exercises,
      total |-> Len(exercises),
      completed |-> 0,
      current |-> None,
      done |-> FALSE ]

\* WorkoutRoutine.advance(): the value returned (None or the exercise) and
\* the routine after the call.
RoutineAdvance(r) ==
    IF r.queue = <<>>
    THEN [ret |-> None, r |-> [r EXCEPT !.done = TRUE, !.current = None]]
    ELSE [ret |-> Some(Head(r.queue)),
          r |-> [r EXCEPT !.current = Some(Head(r.queue)), !.queue = Tail(r.queue)]]

\* WorkoutRoutine.complete_current()
CompleteCurrent(r) == [r EXCEPT !.completed = @ + 1, !.current = None]

\* Faulty variant of skip_current: the exercise is not queued again.
SkipCurrentDropped(r) == [r EXCEPT !.current = None]

\* Faulty variant of skip_current: the exercise goes to the front of the queue.
SkipCurrentToFront(r) ==
    IF ~IsNone(r.current)
    THEN [r EXCEPT !.queue = <<Val(r.current)>> \o @, !.current = None]
    ELSE r

\* WorkoutRoutine.skip_current()
SkipCurrent(r) ==
    IF ~IsNone(r.current)
    THEN [r EXCEPT !.queue = Append(@, Val(r.current)), !.current = None]
    ELSE r

\* WorkoutRoutine.remaining
Remaining(r) == Len(r.queue)

-----------------------------------------------------------------------------
(* WorkoutSession: src/pose_tracker.py 435-498 *)

\* WorkoutSession.__init__(config)
NewSession(config) ==
    [ reps_per_set |-> config.reps,
      rest_seconds |-> config.rest_seconds,
      total_sets |-> config.sets,
      current_set |-> 0,
      resting |-> FALSE,
      rest_start |-> 0,
      rest_warned |-> FALSE,
      finished |-> FALSE ]

\* WorkoutSession.rest_remaining, read at clock tm
RestRemaining(s, tm) ==
    IF ~s.resting THEN 0 ELSE Max(0, s.rest_seconds - (tm - s.rest_start))

\* WorkoutSession.start()
SessionStart(s) ==
    [s EXCEPT !.current_set = 1, !.resting = FALSE, !.finished = FALSE,
              !.rest_warned = FALSE]

\* Faulty variant of check_set_complete: every side must reach the target.
CheckSetCompleteAll(s, tr) ==
    IF s.resting \/ s.finished THEN FALSE
    ELSE \A side \in DOMAIN tr : tr[side].reps >= s.reps_per_set

\* WorkoutSession.check_set_complete(trackers)
CheckSetComplete(s, tr) ==
    IF s.resting \/ s.finished THEN FALSE
    ELSE \E side \in DOMAIN tr : tr[side].reps >= s.reps_per_set

\* Faulty variant of begin_rest: the clock is not read.
BeginRestNoClock(s, tm) == [s EXCEPT !.resting = TRUE, !.rest_warned = FALSE]

\* WorkoutSession.begin_rest(), called at clock tm
BeginRest(s, tm) ==
    [s EXCEPT !.resting = TRUE, !.rest_start = tm, !.rest_warned = FALSE]

\* Faulty variant of check_rest_done: true only at the very instant the rest
\* time has elapsed.
CheckRestDoneExact(s, tm) ==
    IF ~s.resting THEN FALSE ELSE tm - s.rest_start = s.rest_seconds

\* WorkoutSession.check_rest_done(), called at clock tm
CheckRestDone(s, tm) == IF ~s.resting THEN FALSE ELSE RestRemaining(s, tm) <= 0

\* Faulty variant of advance_set: finishes one set early.
AdvanceSetOffByOne(s) ==
    LET s1 == [s EXCEPT !.resting = FALSE, !.current_set = @ + 1]
    IN IF s1.current_set >= s1.total_sets
       THEN [ret |-> FALSE, s |-> [s1 EXCEPT !.finished = TRUE]]
       ELSE [ret |-> TRUE, s |-> s1]

\* WorkoutSession.advance_set(): the value returned and the session after
\* the call.
AdvanceSet(s) ==
    LET s1 == [s EXCEPT !.resting = FALSE, !.current_set = @ + 1]
    IN IF s1.current_set > s1.total_sets
       THEN [ret |-> FALSE, s |-> [s1 EXCEPT !.finished = TRUE]]
       ELSE [ret |-> TRUE, s |-> s1]

\* WorkoutSession.should_warn_rest_break(): the value returned and the
\* session after the call.
ShouldWarnRestBreak(s) ==
    IF ~s.resting \/ s.rest_warned
    THEN [ret |-> FALSE, s |-> s]
    ELSE [ret |-> TRUE, s |-> [s EXCEPT !.rest_warned = TRUE]]

\* WorkoutSession.reset_rest_warn()
ResetRestWarn(s) == [s EXCEPT !.rest_warned = FALSE]

-----------------------------------------------------------------------------
(* Values shared by the specifications. *)

NoTrackers == <<>>          \* trackers = {}
NoLast == [op |-> "init", ret |-> None]
NoObs == <<>>
NoOrch == <<>>              \* main() is not running

\* The three routine entries A, B, C used in the routine and session models.
CfgA == ExerciseConfig("bicep_curl", 3, 8, 60000)
CfgB == ExerciseConfig("lateral_raise", 2, 10, 45000)
CfgC == ExerciseConfig("bicep_curl", 1, 5, 30000)
RoutineEntries == {CfgA, CfgB, CfgC}

RECURSIVE SeqsUpTo(_, _)
SeqsUpTo(S, n) ==
    IF n = 0 THEN {<<>>}
    ELSE LET shorter == SeqsUpTo(S, n - 1)
         IN shorter \cup {Append(q, x) : q \in shorter, x \in S}

-----------------------------------------------------------------------------
(* SpecRoutine: a WorkoutRoutine driven by any sequence of its public      *)
(* operations.  obs keeps the queue and current slot as they were before   *)
(* the last operation (pq, pc) and before the one preceding it (ppq, ppc), *)
(* and the name of the preceding operation (pop).                          *)

MaxExercises == 3           \* longest routine loaded
MaxCompleted == 4           \* cap on the completed counter

RoutineObs(r, l, o) ==
    [pq |-> r.queue, pc |-> r.current, ppq |-> o.pq, ppc |-> o.pc, pop |-> l.op]

InitRoutine ==
    /\ now = 0
    /\ trackers = NoTrackers
    /\ session = None
    /\ \E exs \in SeqsUpTo(RoutineEntries, MaxExercises) : routine = NewRoutine(exs)
    /\ last = NoLast
    /\ obs = [pq |-> <<>>, pc |-> None, ppq |-> <<>>, ppc |-> None, pop |-> "init"]
    /\ orch = NoOrch

RtAdvance ==
    /\ routine' = RoutineAdvance(routine).r
    /\ last' = [op |-> "advance", ret |-> RoutineAdvance(routine).ret]
    /\ obs' = RoutineObs(routine, last, obs)
    /\ UNCHANGED <<orch, now, trackers, session>>

RtCompleteCurrent ==
    /\ routine.completed < MaxCompleted
    /\ routine' = CompleteCurrent(routine)
    /\ last' = [op |-> "complete_current", ret |-> None]
    /\ obs' = RoutineObs(routine, last, obs)
    /\ UNCHANGED <<orch, now, trackers, session>>

RtSkipCurrent ==
    /\ routine' = SkipCurrent(routine)
    /\ last' = [op |-> "skip_current", ret |-> None]
    /\ obs' = RoutineObs(routine, last, obs)
    /\ UNCHANGED <<orch, now, trackers, session>>

NextRoutine == RtAdvance \/ RtCompleteCurrent \/ RtSkipCurrent

SpecRoutine == InitRoutine /\ [][NextRoutine]_vars

-----------------------------------------------------------------------------
(* SpecSession: a WorkoutSession driven by any sequence of its operations  *)
(* under a non-decreasing clock.  obs.started says start() has been       *)
(* called, obs.k counts the advance_set() calls since the last start().   *)

MaxSets == 3                \* largest total_sets of a session
MaxRepsPerSet == 2          \* largest reps_per_set of a session
MaxSessionTicks == 4        \* the clock stops after this many 125 ms ticks
TimeSteps == {125, 250}
RestChoices == {250, 500}
Sides == {"L", "R"}

SessionConfigs ==
    {ExerciseConfig("bicep_curl", n, r, rest) :
        n \in 1..MaxSets, r \in 1..MaxRepsPerSet, rest \in RestChoices}

\* A frame with nothing to fault: only the elbow angle varies.
CleanCurlFrame(elbow) ==
    [elbow |-> elbow, shoulder |-> 10, lean |-> None, wrist |-> None,
     sh_ear |-> None, flare |-> None, sup |-> None]

\* The tracker after n more full reps (elbow 45 then 160) at clock tm.
RECURSIVE AfterReps(_, _, _)
AfterReps(t, n, tm) ==
    IF n = 0 THEN t
    ELSE AfterReps(CurlUpdate(CurlUpdate(t, CleanCurlFrame(45), tm),
                              CleanCurlFrame(160), tm), n - 1, tm)

\* The tracker dicts check_set_complete is called with: a curl tracker per
\* side, each having completed 0..MaxRepsPerSet reps.
TrackerDicts ==
    { [side \in Sides |->
          AfterReps(NewCurlTracker(side), IF side = "L" THEN a ELSE b, 0)] :
      a \in 0..MaxRepsPerSet, b \in 0..MaxRepsPerSet }

InitSession ==
    /\ now = 0
    /\ trackers = NoTrackers
    /\ \E cfg \in SessionConfigs : session = NewSession(cfg)
    /\ routine = None
    /\ last = NoLast
    /\ obs = [started |-> FALSE, k |-> 0]
    /\ orch = NoOrch

SeStart ==
    /\ session' = SessionStart(session)
    /\ last' = [op |-> "start", ret |-> None]
    /\ obs' = [started |-> TRUE, k |-> 0]
    /\ UNCHANGED <<orch, now, trackers, routine>>

\* last.arg is the rep count per side of the dict passed.
SeCheckSetComplete ==
    /\ \E tr \in TrackerDicts :
          last' = [op |-> "check_set_complete", ret |-> CheckSetComplete(session, tr),
                   arg |-> [side \in Sides |-> tr[side].reps]]
    /\ UNCHANGED <<orch, now, trackers, session, routine, obs>>

SeBeginRest ==
    /\ session' = BeginRest(session, now)
    /\ last' = [op |-> "begin_rest", ret |-> None]
    /\ UNCHANGED <<orch, now, trackers, routine, obs>>

SeRestRemaining ==
    /\ last' = [op |-> "rest_remaining", ret |-> RestRemaining(session, now)]
    /\ UNCHANGED <<orch, now, trackers, session, routine, obs>>

SeCheckRestDone ==
    /\ last' = [op |-> "check_rest_done", ret |-> CheckRestDone(session, now)]
    /\ UNCHANGED <<orch, now, trackers, session, routine, obs>>

SeAdvanceSet ==
    /\ session.current_set <= MaxSets
    /\ session' = AdvanceSet(session).s
    /\ last' = [op |-> "advance_set", ret |-> AdvanceSet(session).ret]
    /\ obs' = [obs EXCEPT !.k = @ + 1]
    /\ UNCHANGED <<orch, now, trackers, routine>>

SeShouldWarnRestBreak ==
    /\ session' = ShouldWarnRestBreak(session).s
    /\ last' = [op |-> "should_warn_rest_break", ret |-> ShouldWarnRestBreak(session).ret]
    /\ UNCHANGED <<orch, now, trackers, routine, obs>>

SeResetRestWarn ==
    /\ session' = ResetRestWarn(session)
    /\ last' = [op |-> "reset_rest_warn", ret |-> None]
    /\ UNCHANGED <<orch, now, trackers, routine, obs>>

\* time.time() moves on between calls.
SeTick ==
    /\ \E dt \in TimeSteps :
          /\ now + dt <= MaxSessionTicks * 125
          /\ now' = now + dt
    /\ last' = [op |-> "tick", ret |-> None]
    /\ UNCHANGED <<orch, trackers, session, routine, obs>>

NextSession ==
    \/ SeStart \/ SeCheckSetComplete \/ SeBeginRest \/ SeRestRemaining
    \/ SeCheckRestDone \/ SeAdvanceSet \/ SeShouldWarnRestBreak
    \/ SeResetRestWarn \/ SeTick

SpecSession == InitSession /\ [][NextSession]_vars

-----------------------------------------------------------------------------
(* SpecHyst: one tracker (either exercise) fed frames in which only the    *)
(* primary angle varies.  An observer may start an observation window at   *)
(* any moment: obs keeps the phase and rep count at that moment and        *)
(* whether a frame since then was past the closed / the open threshold.    *)

MaxReps == 2                \* a tracker stops being fed after this many reps
MaxHystTicks == 2           \* the clock stops after this many 1 s ticks

\* A lateral-raise frame with nothing to fault: only the shoulder varies.
CleanRaiseFrame(shoulder) ==
    [shoulder |-> shoulder, elbow |-> 160, lean |-> None, sh_ear |-> None]

\* Primary angles below, on and above each threshold and inside the band.
HystFrames(kind) ==
    IF kind = "bicep_curl"
    THEN {CleanCurlFrame(e) : e \in {45, CURL_TOP, 100, CURL_BOTTOM, 160}}
    ELSE {CleanRaiseFrame(a) : a \in {20, RAISE_BOTTOM, 50, RAISE_TOP, 90}}

\* _make_trackers(exercise_state)[side]
NewTracker(kind, side) ==
    IF kind = "bicep_curl" THEN NewCurlTracker(side) ELSE NewRaiseTracker(side)

ExerciseKinds == {"bicep_curl", "lateral_raise"}

HystObs(t) == [phase0 |-> t.phase, reps0 |-> t.reps, closed |-> FALSE, open |-> FALSE]

InitHyst ==
    /\ now = 0
    /\ \E kind \in ExerciseKinds : trackers = [side \in {"L"} |-> NewTracker(kind, side)]
    /\ session = None
    /\ routine = None
    /\ last = NoLast
    /\ obs = HystObs(trackers["L"])
    /\ orch = NoOrch

HyUpdate ==
    /\ trackers["L"].reps < MaxReps
    /\ \E f \in HystFrames(trackers["L"].kind) :
          /\ trackers' = [trackers EXCEPT !["L"] = TrackerUpdate(@, f, now)]
          /\ obs' = [obs EXCEPT !.closed = @ \/ PastClosed(trackers["L"], f),
                                !.open = @ \/ PastOpen(trackers["L"], f)]
    /\ last' = [op |-> "update", ret |-> None]
    /\ UNCHANGED <<orch, now, session, routine>>

\* The observer starts a new window in the current state.
HyObserve ==
    /\ obs' = HystObs(trackers["L"])
    /\ last' = [op |-> "observe", ret |-> None]
    /\ UNCHANGED <<orch, now, trackers, session, routine>>

HyTick ==
    /\ now + 1000 <= MaxHystTicks * 1000
    /\ now' = now + 1000
    /\ last' = [op |-> "tick", ret |-> None]
    /\ UNCHANGED <<orch, trackers, session, routine, obs>>

NextHyst == HyUpdate \/ HyObserve \/ HyTick

SpecHyst == InitHyst /\ [][NextHyst]_vars

-----------------------------------------------------------------------------
(* SpecAlerts: one tracker fed frames that stay inside the hysteresis band *)
(* and differ in the measurements the live alerts test, read with          *)
(* get_live_alerts under a non-decreasing clock.  obs maps each message    *)
(* ever triggered to the time of its last trigger.                         *)

MaxAlertTicks == 5          \* the clock stops after this many 125 ms ticks

AlertFrames(kind) ==
    IF kind = "bicep_curl"
    THEN {[CleanCurlFrame(100) EXCEPT !.shoulder = sw, !.lean = ln] :
             sw \in {10, 35, 50}, ln \in {None, Some(30)}}
    ELSE {[CleanRaiseFrame(50) EXCEPT !.elbow = e, !.lean = ln] :
             e \in {160, 100}, ln \in {None, Some(20)}}

\* The messages whose entry an update wrote: entries of the dict after the
\* call that were not there before it.
Written(before, after) == {e[1] : e \in Range(after) \ Range(before)}

InitAlerts ==
    /\ now = 0
    /\ \E kind \in ExerciseKinds : trackers = [side \in {"L"} |-> NewTracker(kind, side)]
    /\ session = None
    /\ routine = None
    /\ last = NoLast
    /\ obs = <<>>
    /\ orch = NoOrch

AlUpdate ==
    /\ \E f \in AlertFrames(trackers["L"].kind) :
          LET t2 == TrackerUpdate(trackers["L"], f, now)
              w == Written(trackers["L"].live_triggers, t2.live_triggers)
          IN /\ trackers' = [trackers EXCEPT !["L"] = t2]
             /\ obs' = [m \in DOMAIN obs \cup w |-> IF m \in w THEN now ELSE obs[m]]
    /\ last' = [op |-> "update", ret |-> None]
    /\ UNCHANGED <<orch, now, session, routine>>

\* tracker.get_live_alerts(now)
AlGetLiveAlerts ==
    /\ last' = [op |-> "get_live_alerts",
                ret |-> ActiveAlerts(trackers["L"].live_triggers, now)]
    /\ trackers' = [trackers EXCEPT
                      !["L"].live_triggers = EvictExpired(@, now)]
    /\ UNCHANGED <<orch, now, session, routine, obs>>

AlTick ==
    /\ \E dt \in TimeSteps :
          /\ now + dt <= MaxAlertTicks * 125
          /\ now' = now + dt
    /\ last' = [op |-> "tick", ret |-> None]
    /\ UNCHANGED <<orch, trackers, session, routine, obs>>

NextAlerts == AlUpdate \/ AlGetLiveAlerts \/ AlTick

SpecAlerts == InitAlerts /\ [][NextAlerts]_vars

-----------------------------------------------------------------------------
(* SpecTracker: one tracker (either exercise) fed whole frames under a     *)
(* non-decreasing clock.  The form measurements of a frame come as one of  *)
(* two profiles (clean, worst); the primary angle varies freely.   *)

MaxTrackerTicks == 4        \* the clock stops after this many 500 ms ticks

CurlProfiles ==
    { [shoulder |-> 10, lean |-> None, wrist |-> None, flare |-> None, sup |-> None],
      [shoulder |-> 50, lean |-> Some(30), wrist |-> Some(150), flare |-> Some(10),
       sup |-> Some(0)] }

RaiseProfiles ==
    { [elbow |-> 160, lean |-> None],
      [elbow |-> 100, lean |-> Some(30)] }

TrackerFrames(kind) ==
    IF kind = "bicep_curl"
    THEN {[elbow |-> e, shoulder |-> p.shoulder, lean |-> p.lean, wrist |-> p.wrist,
           sh_ear |-> None, flare |-> p.flare, sup |-> p.sup] :
             e \in {45, 55, 145, 160}, p \in CurlProfiles}
    ELSE {[shoulder |-> a, elbow |-> p.elbow, lean |-> p.lean, sh_ear |-> None] :
             a \in {20, 72, 90, 115}, p \in RaiseProfiles}

InitTracker ==
    /\ now = 0
    /\ \E kind \in ExerciseKinds : trackers = [side \in {"L"} |-> NewTracker(kind, side)]
    /\ session = None
    /\ routine = None
    /\ last = NoLast
    /\ obs = NoObs
    /\ orch = NoOrch

\* tracker.update(..., now); last.ret says whether the call completed a rep.
TrUpdate ==
    /\ trackers["L"].reps < MaxReps
    /\ \E f \in TrackerFrames(trackers["L"].kind) :
          LET t2 == TrackerUpdate(trackers["L"], f, now)
          IN /\ trackers' = [trackers EXCEPT !["L"] = t2]
             /\ last' = [op |-> "update", ret |-> t2.reps # trackers["L"].reps]
    /\ UNCHANGED <<orch, now, session, routine, obs>>

TrTick ==
    /\ now + 500 <= MaxTrackerTicks * 500
    /\ now' = now + 500
    /\ last' = [op |-> "tick", ret |-> None]
    /\ UNCHANGED <<orch, trackers, session, routine, obs>>

NextTracker == TrUpdate \/ TrTick

SpecTracker == InitTracker /\ [][NextTracker]_vars

-----------------------------------------------------------------------------
(* The frame loop of main(): src/pose_tracker.py 691-1031, with its        *)
(* collaborators ExerciseLog and SupabaseStore (src/supabase_store.py),    *)
(* VoiceCoach (src/tts.py) and the listener's result queue                 *)
(* (src/backend/voice_command.py).                                         *)

\* v handed to Op as a value that is computed once.
Then(v, Op(_)) == CHOOSE r \in {Op(x) : x \in {v}} : TRUE

STATE_IDLE == "idle"
STATE_ANNOUNCE == "announce"
STATE_CURL == "bicep_curl"
STATE_RAISE == "lateral_raise"
STATE_REST == "resting"

\* EXERCISE_STATES[config.exercise]
EXERCISE_STATES(exercise) == IF exercise = "bicep_curl" THEN STATE_CURL ELSE STATE_RAISE

ActiveStates == {STATE_CURL, STATE_RAISE}

\* VoiceResult(intent, transcript, response, weight_lbs).  intent is "none"
\* for a result without a command; response is "" for no LLM response.
NoIntent == "none"
VoiceResult(intent, response, weight_lbs) ==
    [intent |-> intent, response |-> response, weight_lbs |-> weight_lbs]

\* A string handed to VoiceCoach.say(): which message it is (tag), the LLM
\* response that replaces its default opening ("" if none), the coaching
\* string (for a tracker's speech) and the numbers formatted into it.
Text(tag, response, speech, n, m) ==
    [tag |-> tag, response |-> response, speech |-> speech, n |-> n, m |-> m]

\* Whether ELEVENLABS_API_KEY is set when main() builds the voice coach.
ApiKeys == BOOLEAN

\* VoiceCoach.__init__: a client if there is an API key, nothing pending, not
\* busy.  taken is the position of _worker: it holds a text it took (its
\* local text is not None) and has not finished speaking it.  The text
\* itself goes to the speech service.
NewVoice(key) == [client |-> key, pending |-> None, busy |-> FALSE, taken |-> FALSE]

\* Faulty variant of say: a pending text is not overwritten.
SayKeepsPending(v, text) ==
    IF ~v.client \/ ~IsNone(v.pending) THEN v ELSE [v EXCEPT !.pending = Some(text)]

\* VoiceCoach.say(text): without a client it returns at once; with one the
\* pending text is overwritten.
Say(v, text) == IF ~v.client THEN v ELSE [v EXCEPT !.pending = Some(text)]

\* VoiceCoach._worker takes the pending text under the lock (tts.py 61-63).
VoiceTake(v) == [v EXCEPT !.taken = TRUE, !.pending = None]

\* VoiceCoach._worker, holding a text, sets _busy and starts speaking
\* (tts.py 65-69).
VoiceStart(v) == [v EXCEPT !.busy = TRUE]

\* VoiceCoach._worker has finished speaking (tts.py 70-82).
VoiceDone(v) == [v EXCEPT !.busy = FALSE, !.taken = FALSE]

\* The next step of the worker, if it has one: it finishes speaking, or
\* starts speaking the text it holds, or takes a pending text.  With nothing
\* pending it sleeps and looks again, which changes nothing.
WorkerStep(v) ==
    IF v.busy THEN VoiceDone(v)
    ELSE IF v.taken THEN VoiceStart(v)
    ELSE IF ~IsNone(v.pending) THEN VoiceTake(v)
    ELSE v

\* The voice coach after any number of steps of its worker.
RECURSIVE WorkerRuns(_)
WorkerRuns(v) ==
    IF WorkerStep(v) = v THEN {v} ELSE {v} \cup WorkerRuns(WorkerStep(v))

\* main() at a point where the worker's thread may run: the worker has
\* taken any number of steps.
Yield(g) == {[g EXCEPT !.o.voice = v] : v \in WorkerRuns(g.o.voice)}

\* main() at g1, a point where the worker's thread may run if it runs during
\* this iteration at all (threads), having been at g0 when it could last
\* run.  If main() has used the voice coach in between, by a say() or by
\* reading is_busy (read), the worker's steps here are steps of their own;
\* if it has not, they lead to no state that its steps at the earlier point
\* do not lead to.
After(g0, g1, read, threads) ==
    UNION {IF threads /\ (read \/ x.tr.said # g0.tr.said) THEN Yield(x) ELSE {x} :
             x \in {g1}}

\* ExerciseLog(exercise=...)
NewExerciseLog(exercise) ==
    [ exercise |-> exercise,
      weight_lbs |-> None,
      set_reps |-> <<>>,
      all_scores |-> <<>>,
      injury_warnings |-> 0 ]

\* ExerciseLog.record_set(trackers): trackers.values() is L, then R.
RecordSet(log, tr) ==
    [log EXCEPT
       !.all_scores = @ \o tr["L"].rep_scores \o tr["R"].rep_scores,
       !.injury_warnings = @ + (IF tr["L"].injury_warning THEN 1 ELSE 0)
                             + (IF tr["R"].injury_warning THEN 1 ELSE 0),
       !.set_reps = Append(@, tr["L"].reps + tr["R"].reps)]

\* _make_trackers(exercise_state)
MakeTrackers(exercise_state) ==
    IF exercise_state = STATE_CURL
    THEN [side \in {"L", "R"} |-> NewCurlTracker(side)]
    ELSE IF exercise_state = STATE_RAISE
    THEN [side \in {"L", "R"} |-> NewRaiseTracker(side)]
    ELSE NoTrackers

\* The truth value of the trackers dict: false for {}.
HasTrackers(tr) == DOMAIN tr # {}

\* BaseTracker.take_speech(): the string popped (None if the queue is
\* empty) and the tracker after the call.
TakeSpeech(t) ==
    IF t.speech_queue # <<>>
    THEN [ret |-> Some(Head(t.speech_queue)), t |-> [t EXCEPT !.speech_queue = Tail(@)]]
    ELSE [ret |-> None, t |-> t]

\* The state of main() as one value g: the clock, the trackers dict, the
\* session and routine (None or the object), the other locals and the
\* collaborators (o), and a record of what this frame did (tr).
NewOrch(csv, key) ==
    [ state |-> STATE_IDLE,
      exercise_type |-> STATE_IDLE,
      exercise_log |-> None,
      csv |-> csv,             \* the workout file: None if missing, else its rows
      queue |-> <<>>,          \* listener._command_queue
      use_llm_only |-> TRUE,   \* listener.use_llm_only
      voice |-> NewVoice(key),
      saved |-> <<>> ]         \* the logs handed to db.save_exercise_log

NewTrace ==
    [ from |-> STATE_IDLE,     \* the state variable when the frame began
      result |-> None,         \* what get_command() returned
      said |-> <<>>,           \* the texts passed to voice.say(), in order
      lost |-> 0,              \* how many of them a later say() of the frame
                               \* replaced while they were still pending
      saved |-> <<>>,          \* the logs passed to db.save_exercise_log()
      popped |-> <<>>,         \* the <<side, string>> taken by take_speech()
      mid |-> None,            \* state, session, routine, trackers after the intent step
      rest_done |-> FALSE,     \* check_rest_done() was called and returned true
      advanced |-> None,       \* what advance_set() returned, if called
      set_done |-> FALSE,      \* check_set_complete() was called and returned true
      warned |-> FALSE,        \* should_warn_rest_break() returned true
      busy |-> FALSE,          \* voice.is_busy when the frame reached line 975
      key |-> "none" ]         \* the key cv2.waitKey() returned

GSay(g, text) ==
    [g EXCEPT !.o.voice = Say(@, text), !.tr.said = Append(@, text),
              !.tr.lost = IF IsNone(g.o.voice.pending) \/ g.tr.said = <<>>
                          THEN @ ELSE @ + 1]

\* _respond(voice, llm_response, default, info): llm_response or default,
\* followed by info.
GRespond(g, tag, s, n, m) ==
    LET r == Val(g.tr.result).response
    IN GSay(g, Text(tag, r, s, n, m))

\* db.save_exercise_log(log)
GSave(g, log) ==
    [g EXCEPT !.o.saved = Append(@, log), !.tr.saved = Append(@, log)]

\* state, exercise_type, trackers, session, routine = _go_idle()
GoIdle(g) ==
    [g EXCEPT !.o.state = STATE_IDLE, !.o.exercise_type = STATE_IDLE,
              !.trackers = NoTrackers, !.session = None, !.routine = None]

\* state, trackers, session = _start_exercise(cfg); exercise_type = state
StartExercise(g, cfg) ==
    [g EXCEPT !.o.state = EXERCISE_STATES(cfg.exercise),
              !.o.exercise_type = EXERCISE_STATES(cfg.exercise),
              !.trackers = MakeTrackers(EXERCISE_STATES(cfg.exercise)),
              !.session = Some(SessionStart(NewSession(cfg)))]

\* Faulty variant of get_command: the whole queue is taken.
GetCommandDrain(q) ==
    IF q = <<>> THEN [ret |-> None, q |-> q] ELSE [ret |-> Some(Head(q)), q |-> <<>>]

\* VoiceCommandListener.get_command(): get_nowait() on the result queue.
GetCommand(q) ==
    IF q = <<>> THEN [ret |-> None, q |-> q] ELSE [ret |-> Some(Head(q)), q |-> Tail(q)]

\* Lines 786-797: take a result; record its weight; speak a pure
\* conversation response.
FrTakeResult(g) ==
    LET got == GetCommand(g.o.queue)
        g1 == [g EXCEPT !.o.queue = got.q, !.tr.result = got.ret]
    IN IF IsNone(got.ret) THEN g1
       ELSE LET res == Val(got.ret)
                g2 == IF ~IsNone(res.weight_lbs) /\ ~IsNone(g1.o.exercise_log)
                      THEN [g1 EXCEPT !.o.exercise_log =
                                Some([Val(@) EXCEPT !.weight_lbs = res.weight_lbs])]
                      ELSE g1
            IN IF res.intent = NoIntent /\ res.response # ""
               THEN GSay(g2, Text("chat", res.response, "", 0, 0))
               ELSE g2

\* cmd of the frame: result.intent, or None without a result.
Cmd(g) == IF IsNone(g.tr.result) THEN NoIntent ELSE Val(g.tr.result).intent

\* Faulty variant of the stop branch: the log is saved as it is, without
\* the reps of the running set.
FrStopNoFlush(g) ==
    IF g.o.state # STATE_IDLE
    THEN LET g1 == IF ~IsNone(g.o.exercise_log) /\ HasTrackers(g.trackers)
                   THEN GSave(g, Val(g.o.exercise_log))
                   ELSE g
             g2 == [g1 EXCEPT !.o.exercise_log = None]
         IN GoIdle(GRespond(g2, "stopped", "", 0, 0))
    ELSE GoIdle(g)

\* Faulty variant of the stop branch: a stop during a rest is put off.
FrStopDeferred(g) ==
    IF g.o.state = STATE_REST THEN g
    ELSE IF g.o.state # STATE_IDLE
    THEN LET g1 == IF ~IsNone(g.o.exercise_log) /\ HasTrackers(g.trackers)
                   THEN LET log == RecordSet(Val(g.o.exercise_log), g.trackers)
                        IN GSave([g EXCEPT !.o.exercise_log = Some(log)], log)
                   ELSE g
             g2 == [g1 EXCEPT !.o.exercise_log = None]
         IN GoIdle(GRespond(g2, "stopped", "", 0, 0))
    ELSE GoIdle(g)

\* Lines 799-807: cmd == "stop".
FrStop(g) ==
    IF g.o.state # STATE_IDLE
    THEN LET g1 == IF ~IsNone(g.o.exercise_log) /\ HasTrackers(g.trackers)
                   THEN LET log == RecordSet(Val(g.o.exercise_log), g.trackers)
                        IN GSave([g EXCEPT !.o.exercise_log = Some(log)], log)
                   ELSE g
             g2 == [g1 EXCEPT !.o.exercise_log = None]
         IN GoIdle(GRespond(g2, "stopped", "", 0, 0))
    ELSE GoIdle(g)

\* The ad-hoc block of lines 834-837.
AdHocConfig(exercise) == ExerciseConfig(exercise, 3, 8, 60000)

\* Lines 809-848: state == STATE_IDLE.
FrIdle(g) ==
    LET cmd == Cmd(g)
    IN IF cmd = "start_workout"
       THEN IF IsNone(g.o.csv)
            THEN GRespond(g, "file_not_found", "", 0, 0)
            ELSE LET adv == RoutineAdvance(NewRoutine(Val(g.o.csv)))
                 IN IF ~IsNone(adv.ret)
                    THEN LET cfg == Val(adv.ret)
                         IN GRespond([g EXCEPT !.routine = Some(adv.r),
                                               !.o.state = STATE_ANNOUNCE,
                                               !.o.exercise_log =
                                                   Some(NewExerciseLog(cfg.exercise))],
                                     "starting_workout", cfg.exercise, cfg.sets, cfg.reps)
                    ELSE [GRespond(g, "file_empty", "", 0, 0) EXCEPT !.routine = None]
       ELSE IF cmd \in {"start_bicep_curl", "start_lateral_raise"}
       THEN LET cfg == AdHocConfig(IF cmd = "start_bicep_curl"
                                   THEN "bicep_curl" ELSE "lateral_raise")
                w == Val(g.tr.result).weight_lbs
                log == [NewExerciseLog(cfg.exercise) EXCEPT !.weight_lbs = w]
            IN GRespond(StartExercise([g EXCEPT !.o.exercise_log = Some(log)], cfg),
                        "starting", cfg.exercise, cfg.sets, 0)
       ELSE g

\* Faulty variant of the Announce branch: only ready starts the exercise.
FrAnnounceReadyOnly(g) ==
    LET cmd == Cmd(g)
        has_current == ~IsNone(g.routine) /\ ~IsNone(Val(g.routine).current)
    IN IF cmd = "ready" /\ has_current
       THEN LET cfg == Val(Val(g.routine).current)
                w == Val(g.tr.result).weight_lbs
                log0 == IF IsNone(g.o.exercise_log)
                        THEN NewExerciseLog(cfg.exercise) ELSE Val(g.o.exercise_log)
                log == IF ~IsNone(w) THEN [log0 EXCEPT !.weight_lbs = w] ELSE log0
            IN GRespond(StartExercise([g EXCEPT !.o.exercise_log = Some(log)], cfg),
                        "lets_go", cfg.exercise, cfg.sets,
                        IF IsNone(log.weight_lbs) THEN 0 ELSE Val(log.weight_lbs))
       ELSE IF cmd = "skip" /\ ~IsNone(g.routine)
       THEN LET adv == RoutineAdvance(SkipCurrent(Val(g.routine)))
                g1 == [g EXCEPT !.o.exercise_log = None, !.routine = Some(adv.r)]
            IN IF ~IsNone(adv.ret)
               THEN LET nxt == Val(adv.ret)
                    IN GRespond([g1 EXCEPT !.o.state = STATE_ANNOUNCE,
                                           !.o.exercise_log =
                                               Some(NewExerciseLog(nxt.exercise))],
                                "skipped", nxt.exercise, nxt.sets, nxt.reps)
               ELSE GoIdle(GRespond(g1, "no_more_exercises", "", 0, 0))
       ELSE g

\* Faulty variant of the Announce step: a skip announces the next exercise
\* without a log for it.
FrAnnounceSkipNoLog(g) ==
    LET cmd == Cmd(g)
        has_current == ~IsNone(g.routine) /\ ~IsNone(Val(g.routine).current)
    IN IF cmd \in {"ready", "start_bicep_curl", "start_lateral_raise"} /\ has_current
       THEN LET cfg == Val(Val(g.routine).current)
                w == Val(g.tr.result).weight_lbs
                log0 == IF IsNone(g.o.exercise_log)
                        THEN NewExerciseLog(cfg.exercise) ELSE Val(g.o.exercise_log)
                log == IF ~IsNone(w) THEN [log0 EXCEPT !.weight_lbs = w] ELSE log0
            IN GRespond(StartExercise([g EXCEPT !.o.exercise_log = Some(log)], cfg),
                        "lets_go", cfg.exercise, cfg.sets,
                        IF IsNone(log.weight_lbs) THEN 0 ELSE Val(log.weight_lbs))
       ELSE IF cmd = "skip" /\ ~IsNone(g.routine)
       THEN LET adv == RoutineAdvance(SkipCurrent(Val(g.routine)))
                g1 == [g EXCEPT !.o.exercise_log = None, !.routine = Some(adv.r)]
            IN IF ~IsNone(adv.ret)
               THEN LET nxt == Val(adv.ret)
                    IN GRespond([g1 EXCEPT !.o.state = STATE_ANNOUNCE],
                                "skipped", nxt.exercise, nxt.sets, nxt.reps)
               ELSE GoIdle(GRespond(g1, "no_more_exercises", "", 0, 0))
       ELSE g

\* Faulty variant of the Announce step: a skip calls advance() while the
\* skipped exercise is still current.
FrAnnounceSkipAdvances(g) ==
    LET cmd == Cmd(g)
        has_current == ~IsNone(g.routine) /\ ~IsNone(Val(g.routine).current)
    IN IF cmd \in {"ready", "start_bicep_curl", "start_lateral_raise"} /\ has_current
       THEN LET cfg == Val(Val(g.routine).current)
                w == Val(g.tr.result).weight_lbs
                log0 == IF IsNone(g.o.exercise_log)
                        THEN NewExerciseLog(cfg.exercise) ELSE Val(g.o.exercise_log)
                log == IF ~IsNone(w) THEN [log0 EXCEPT !.weight_lbs = w] ELSE log0
            IN GRespond(StartExercise([g EXCEPT !.o.exercise_log = Some(log)], cfg),
                        "lets_go", cfg.exercise, cfg.sets,
                        IF IsNone(log.weight_lbs) THEN 0 ELSE Val(log.weight_lbs))
       ELSE IF cmd = "skip" /\ ~IsNone(g.routine)
       THEN LET adv == RoutineAdvance(Val(g.routine))
                g1 == [g EXCEPT !.o.exercise_log = None, !.routine = Some(adv.r)]
            IN IF ~IsNone(adv.ret)
               THEN LET nxt == Val(adv.ret)
                    IN GRespond([g1 EXCEPT !.o.state = STATE_ANNOUNCE,
                                           !.o.exercise_log =
                                               Some(NewExerciseLog(nxt.exercise))],
                                "skipped", nxt.exercise, nxt.sets, nxt.reps)
               ELSE GoIdle(GRespond(g1, "no_more_exercises", "", 0, 0))
       ELSE g

\* Lines 850-892: state == STATE_ANNOUNCE.
FrAnnounce(g) ==
    LET cmd == Cmd(g)
        has_current == ~IsNone(g.routine) /\ ~IsNone(Val(g.routine).current)
    IN IF cmd \in {"ready", "start_bicep_curl", "start_lateral_raise"} /\ has_current
       THEN LET cfg == Val(Val(g.routine).current)
                w == Val(g.tr.result).weight_lbs
                log0 == IF IsNone(g.o.exercise_log)
                        THEN NewExerciseLog(cfg.exercise) ELSE Val(g.o.exercise_log)
                log == IF ~IsNone(w) THEN [log0 EXCEPT !.weight_lbs = w] ELSE log0
            IN GRespond(StartExercise([g EXCEPT !.o.exercise_log = Some(log)], cfg),
                        "lets_go", cfg.exercise, cfg.sets,
                        IF IsNone(log.weight_lbs) THEN 0 ELSE Val(log.weight_lbs))
       ELSE IF cmd = "skip" /\ ~IsNone(g.routine)
       THEN LET adv == RoutineAdvance(SkipCurrent(Val(g.routine)))
                g1 == [g EXCEPT !.o.exercise_log = None, !.routine = Some(adv.r)]
            IN IF ~IsNone(adv.ret)
               THEN LET nxt == Val(adv.ret)
                    IN GRespond([g1 EXCEPT !.o.state = STATE_ANNOUNCE,
                                           !.o.exercise_log =
                                               Some(NewExerciseLog(nxt.exercise))],
                                "skipped", nxt.exercise, nxt.sets, nxt.reps)
               ELSE GoIdle(GRespond(g1, "no_more_exercises", "", 0, 0))
       ELSE g

\* Faulty variant of the voice-command step: the start commands are obeyed in
\* every state but Announce.
FrIntentAnyState(g) ==
    Then(FrTakeResult(g), LAMBDA g1 :
      Then(IF Cmd(g1) = "stop" THEN FrStop(g1)
           ELSE IF g1.o.state # STATE_ANNOUNCE THEN FrIdle(g1)
           ELSE IF g1.o.state = STATE_ANNOUNCE THEN FrAnnounce(g1)
           ELSE g1,
           LAMBDA g2 :
             [g2 EXCEPT !.tr.mid = Some([state |-> g2.o.state, session |-> g2.session,
                                         routine |-> g2.routine,
                                         trackers |-> g2.trackers])]))

\* Lines 785-892: the voice-command step of a frame.  The orchestrator's
\* state, session, routine and trackers after it are kept in tr.mid.
FrIntent(g) ==
    Then(FrTakeResult(g), LAMBDA g1 :
      Then(IF Cmd(g1) = "stop" THEN FrStop(g1)
           ELSE IF g1.o.state = STATE_IDLE THEN FrIdle(g1)
           ELSE IF g1.o.state = STATE_ANNOUNCE THEN FrAnnounce(g1)
           ELSE g1,
           LAMBDA g2 :
             [g2 EXCEPT !.tr.mid = Some([state |-> g2.o.state, session |-> g2.session,
                                         routine |-> g2.routine,
                                         trackers |-> g2.trackers])]))

\* What detection gives a frame: None without pose landmarks, else the
\* torso lean and, per side, the measurements of that arm (each optional).
Arm(elbow, shoulder, wrist, sh_ear, flare, sup) ==
    [elbow |-> elbow, shoulder |-> shoulder, wrist |-> wrist,
     sh_ear |-> sh_ear, flare |-> flare, sup |-> sup]
NoArm == Arm(None, None, None, None, None, None)
Pose(l, r, lean) == Some([L |-> l, R |-> r, lean |-> lean])
NoPose == None

\* update_trackers of bicep_curl.py (281-315) and of lateral_raise.py
\* (239-263), for one side: a side without elbow or shoulder angle is skipped.
UpdateSide(t, arm, lean, tm) ==
    IF IsNone(arm.elbow) \/ IsNone(arm.shoulder) THEN t
    ELSE IF t.kind = "bicep_curl"
    THEN CurlUpdate(t, [elbow |-> Val(arm.elbow), shoulder |-> Val(arm.shoulder),
                        lean |-> lean, wrist |-> arm.wrist, sh_ear |-> arm.sh_ear,
                        flare |-> arm.flare, sup |-> arm.sup], tm)
    ELSE RaiseUpdate(t, [shoulder |-> Val(arm.shoulder), elbow |-> Val(arm.elbow),
                         lean |-> lean, sh_ear |-> arm.sh_ear], tm)

\* Lines 909-921: the trackers are fed only with pose landmarks and only in
\* an exercise state.
FrDetect(g, pose) ==
    IF ~IsNone(pose) /\ g.o.state \in ActiveStates
    THEN [g EXCEPT !.trackers =
              [side \in DOMAIN @ |-> UpdateSide(@[side], Val(pose)[side], Val(pose).lean, g.now)]]
    ELSE g

\* _exercise_is_active(angles, exercise_state)
ExerciseIsActive(pose, exercise_state) ==
    /\ ~IsNone(pose)
    /\ \/ /\ exercise_state = STATE_CURL
          /\ \E side \in {"L", "R"} :
                ~IsNone(Val(pose)[side].elbow) /\ Val(Val(pose)[side].elbow) < 90
       \/ /\ exercise_state = STATE_RAISE
          /\ \E side \in {"L", "R"} :
                ~IsNone(Val(pose)[side].shoulder) /\ Val(Val(pose)[side].shoulder) > 50

\* Lines 926-930: the rest-break warning.
FrRestWarn(g, pose) ==
    IF ExerciseIsActive(pose, g.o.exercise_type) /\ ~g.o.voice.busy
    THEN LET w == ShouldWarnRestBreak(Val(g.session))
             g1 == [g EXCEPT !.session = Some(w.s), !.tr.warned = w.ret]
             g2 == IF w.ret
                   THEN GSay(g1, Text("rest_more", "", "",
                                      RestRemaining(w.s, g.now) \div 1000, 0))
                   ELSE g1
         IN [g2 EXCEPT !.session = Some(ResetRestWarn(Val(@)))]
    ELSE g

\* Faulty variant of the end of a block: the routine advances without
\* complete_current().
FrBlockDoneNoComplete(g) ==
    LET g1 == IF ~IsNone(g.o.exercise_log)
              THEN [GSave(g, Val(g.o.exercise_log)) EXCEPT !.o.exercise_log = None]
              ELSE g
    IN IF ~IsNone(g1.routine)
       THEN LET adv == RoutineAdvance(Val(g1.routine))
                g2 == [g1 EXCEPT !.routine = Some(adv.r)]
            IN IF ~IsNone(adv.ret)
               THEN LET nxt == Val(adv.ret)
                    IN GSay([g2 EXCEPT !.o.state = STATE_ANNOUNCE,
                                       !.session = None,
                                       !.trackers = NoTrackers,
                                       !.o.exercise_log = Some(NewExerciseLog(nxt.exercise))],
                            Text("exercise_complete", "", nxt.exercise, nxt.sets, nxt.reps))
               ELSE GoIdle(GSay(g2, Text("all_exercises_complete", "", "", 0, 0)))
       ELSE GoIdle(GSay(g1, Text("all_sets_complete", "", "", 0, 0)))

\* Faulty variant of the end of a block: the finished session is kept while
\* the next exercise is announced.
FrBlockDoneKeepsSession(g) ==
    LET g1 == IF ~IsNone(g.o.exercise_log)
              THEN [GSave(g, Val(g.o.exercise_log)) EXCEPT !.o.exercise_log = None]
              ELSE g
    IN IF ~IsNone(g1.routine)
       THEN LET adv == RoutineAdvance(CompleteCurrent(Val(g1.routine)))
                g2 == [g1 EXCEPT !.routine = Some(adv.r)]
            IN IF ~IsNone(adv.ret)
               THEN LET nxt == Val(adv.ret)
                    IN GSay([g2 EXCEPT !.o.state = STATE_ANNOUNCE,
                                       !.trackers = NoTrackers,
                                       !.o.exercise_log = Some(NewExerciseLog(nxt.exercise))],
                            Text("exercise_complete", "", nxt.exercise, nxt.sets, nxt.reps))
               ELSE GoIdle(GSay(g2, Text("all_exercises_complete", "", "", 0, 0)))
       ELSE GoIdle(GSay(g1, Text("all_sets_complete", "", "", 0, 0)))

\* Lines 938-964: all sets of the block are done.
FrBlockDone(g) ==
    LET g1 == IF ~IsNone(g.o.exercise_log)
              THEN [GSave(g, Val(g.o.exercise_log)) EXCEPT !.o.exercise_log = None]
              ELSE g
    IN IF ~IsNone(g1.routine)
       THEN LET adv == RoutineAdvance(CompleteCurrent(Val(g1.routine)))
                g2 == [g1 EXCEPT !.routine = Some(adv.r)]
            IN IF ~IsNone(adv.ret)
               THEN LET nxt == Val(adv.ret)
                    IN GSay([g2 EXCEPT !.o.state = STATE_ANNOUNCE,
                                       !.session = None,
                                       !.trackers = NoTrackers,
                                       !.o.exercise_log = Some(NewExerciseLog(nxt.exercise))],
                            Text("exercise_complete", "", nxt.exercise, nxt.sets, nxt.reps))
               ELSE GoIdle(GSay(g2, Text("all_exercises_complete", "", "", 0, 0)))
       ELSE GoIdle(GSay(g1, Text("all_sets_complete", "", "", 0, 0)))

\* Faulty variant of the end of a rest: the next set keeps the trackers of
\* the last one.
FrRestDoneSameTrackers(g) ==
    IF CheckRestDone(Val(g.session), g.now)
    THEN LET adv == AdvanceSet(Val(g.session))
             g1 == [g EXCEPT !.session = Some(adv.s), !.tr.rest_done = TRUE,
                             !.tr.advanced = Some(adv.ret)]
         IN IF adv.ret
            THEN GSay([g1 EXCEPT !.o.state = g.o.exercise_type],
                      Text("rest_over", "", "", adv.s.current_set, adv.s.total_sets))
            ELSE FrBlockDone(g1)
    ELSE g

\* Lines 932-964: the rest is over.
FrRestDone(g) ==
    IF CheckRestDone(Val(g.session), g.now)
    THEN LET adv == AdvanceSet(Val(g.session))
             g1 == [g EXCEPT !.session = Some(adv.s), !.tr.rest_done = TRUE,
                             !.tr.advanced = Some(adv.ret)]
         IN IF adv.ret
            THEN GSay([g1 EXCEPT !.trackers = MakeTrackers(g.o.exercise_type),
                                 !.o.state = g.o.exercise_type],
                      Text("rest_over", "", "", adv.s.current_set, adv.s.total_sets))
            ELSE FrBlockDone(g1)
    ELSE g

\* Lines 966-972: a set is complete.
FrSetDone(g) ==
    IF CheckSetComplete(Val(g.session), g.trackers)
    THEN LET g1 == IF ~IsNone(g.o.exercise_log)
                   THEN [g EXCEPT !.o.exercise_log =
                             Some(RecordSet(Val(@), g.trackers))]
                   ELSE g
             s == BeginRest(Val(g.session), g.now)
         IN GSay([g1 EXCEPT !.session = Some(s), !.o.state = STATE_REST,
                            !.tr.set_done = TRUE],
                 Text("set_done", "", "", s.current_set, s.rest_seconds \div 1000))
    ELSE g

\* Lines 923-972: set and rest management.  With threads, the voice
\* worker may run after line 926 has read is_busy or the rest-break warning
\* was given (926-930) and after the text that ends the rest or the set.
FrSetRest(g, pose, threads) ==
    IF ~IsNone(g.session) /\ ~Val(g.session).finished
    THEN IF g.o.state = STATE_REST
         THEN UNION {After(g1, FrRestDone(g1), FALSE, threads) :
                        g1 \in After(g, FrRestWarn(g, pose),
                                     ExerciseIsActive(pose, g.o.exercise_type), threads)}
         ELSE IF g.o.state \in ActiveStates THEN After(g, FrSetDone(g), FALSE, threads)
         ELSE {g}
    ELSE {g}

\* Faulty variant of the speech drain: no break after the first string.
FrSpeechNoBreak(g) ==
    IF g.o.state \in ActiveStates /\ ~g.o.voice.busy
    THEN LET l == TakeSpeech(g.trackers["L"])
             r == TakeSpeech(g.trackers["R"])
             gl == IF IsNone(l.ret) THEN g
                   ELSE GSay([g EXCEPT !.trackers["L"] = l.t,
                                       !.tr.popped = Append(@, <<"L", Val(l.ret)>>)],
                             Text("coach", "", Val(l.ret), 0, 0))
         IN IF IsNone(r.ret) THEN gl
            ELSE GSay([gl EXCEPT !.trackers["R"] = r.t,
                                 !.tr.popped = Append(@, <<"R", Val(r.ret)>>)],
                      Text("coach", "", Val(r.ret), 0, 0))
    ELSE g

\* Faulty variant of the speech drain: also while Resting.
FrSpeechInRest(g) ==
    IF HasTrackers(g.trackers) /\ ~g.o.voice.busy
    THEN LET l == TakeSpeech(g.trackers["L"])
             r == TakeSpeech(g.trackers["R"])
         IN IF ~IsNone(l.ret)
            THEN GSay([g EXCEPT !.trackers["L"] = l.t,
                                !.tr.popped = Append(@, <<"L", Val(l.ret)>>)],
                      Text("coach", "", Val(l.ret), 0, 0))
            ELSE IF ~IsNone(r.ret)
            THEN GSay([g EXCEPT !.trackers["R"] = r.t,
                                !.tr.popped = Append(@, <<"R", Val(r.ret)>>)],
                      Text("coach", "", Val(r.ret), 0, 0))
            ELSE g
    ELSE g

\* Lines 974-981: the voice coach takes one string, L before R.
FrSpeech(g) ==
    IF g.o.state \in ActiveStates /\ ~g.o.voice.busy
    THEN LET l == TakeSpeech(g.trackers["L"])
             r == TakeSpeech(g.trackers["R"])
         IN IF ~IsNone(l.ret)
            THEN GSay([g EXCEPT !.trackers["L"] = l.t,
                                !.tr.popped = Append(@, <<"L", Val(l.ret)>>)],
                      Text("coach", "", Val(l.ret), 0, 0))
            ELSE IF ~IsNone(r.ret)
            THEN GSay([g EXCEPT !.trackers["R"] = r.t,
                                !.tr.popped = Append(@, <<"R", Val(r.ret)>>)],
                      Text("coach", "", Val(r.ret), 0, 0))
            ELSE g
    ELSE g

\* Lines 987-993: draw_live_alerts(frame, trackers, now) in an exercise
\* state calls get_live_alerts(now) on both trackers, which deletes the
\* expired entries of their _live_triggers.
FrDraw(g) ==
    IF g.o.state \in ActiveStates
    THEN [g EXCEPT !.trackers =
              [side \in DOMAIN @ |->
                  [@[side] EXCEPT !.live_triggers = EvictExpired(@, g.now)]]]
    ELSE g

\* The key cv2.waitKey returns: none, or 'm'.  ('q' leaves the loop and
\* main() returns: the model follows the loop while it runs.)
NoKey == "none"
Keys == {NoKey, "m"}

\* Lines 1024-1031: key 'm' switches the listener's mode and says so.
FrKey(g, key) ==
    IF key = "m"
    THEN GSay([g EXCEPT !.o.use_llm_only = ~@, !.tr.key = key],
              Text("mode_switch", "",
                   IF g.o.use_llm_only THEN "Switched to Keyword mode."
                   ELSE "Switched to LLM mode.", 0, 0))
    ELSE g

\* One iteration of the loop of main() (lines 777-1031) at clock g.now + dt,
\* with one of the keys pressed at its end: the states main() can be in
\* after it.  With threads, the worker of the voice coach may run between any
\* two uses main() makes of the voice coach: after the commands' texts
\* (before is_busy is read at line 926), within and after the set and rest
\* management (before line 975, where is_busy is read and recorded) and
\* after the voice coach's string (before the key's text).  What the worker
\* does before the first use or after the last is a step of its own.
Frames(g, pose, dt, keys, threads) ==
    UNION { UNION { UNION { { FrKey(FrDraw(d), key) :
                                d \in IF key = NoKey THEN {FrSpeech(c)}
                                      ELSE After(c, FrSpeech(c), TRUE, threads) }
                            : key \in keys }
                    : c \in {[c0 EXCEPT !.tr.busy = c0.o.voice.busy] :
                               c0 \in FrSetRest(b, pose, threads)} }
            : b \in {FrDetect(a, pose) :
                       a \in UNION {After(g0, FrIntent(g0), FALSE, threads) :
                                       g0 \in {[g EXCEPT !.now = @ + dt,
                                                         !.tr = [NewTrace EXCEPT !.from = g.o.state]]}} } }

\* The iteration during which no other thread runs.
Frame(g, pose, dt, key) == CHOOSE g2 \in Frames(g, pose, dt, {key}, FALSE) : TRUE

\* The scores of the reps that the frame's tracker updates completed, L
\* before R.
CompletedInFrame(g, pose, dt) ==
    LET of(a, b, side) ==
            IF HasTrackers(a.trackers) /\ b.trackers[side].reps > a.trackers[side].reps
            THEN <<b.trackers[side].last_score>> ELSE <<>>
    IN Then(FrIntent([g EXCEPT !.now = @ + dt]), LAMBDA a :
         Then(FrDetect(a, pose), LAMBDA b : of(a, b, "L") \o of(a, b, "R")))

\* The listener's thread puts a result on the queue (voice_command.py,
\* _command_queue.put).
Hear(g, result) == [g EXCEPT !.o.queue = Append(@, result)]

\* main() before its first frame (lines 727-775).
NewMain(csv, key) ==
    [ now |-> 0,
      trackers |-> NoTrackers,
      session |-> None,
      routine |-> None,
      o |-> [NewOrch(csv, key) EXCEPT !.voice = Say(@, Text("ready", "", "", 0, 0))],
      tr |-> NewTrace ]

-----------------------------------------------------------------------------
(* SpecOrch: main() driven by the listener's results, the detected poses,  *)
(* the clock and the voice worker.  last.ret is the record of what the     *)
(* last frame did; obs counts the frames explored and keeps the scores of  *)
(* the reps completed in the running exercise block (block) and the sides  *)
(* whose tracker still queues the unspoken feedback of a rep (owed).       *)

MaxOrchFrames == 2          \* frames explored from an initial state
MaxQueue == 1               \* results waiting in the listener's queue
MaxKeyPresses == 1          \* frames that end with key 'm'

FrameStep == 250            \* ms between two frames

\* The results the listener delivers: each command without an LLM response,
\* and a conversation (no command) that states a weight.
OrchResults ==
    { VoiceResult(i, "", None) :
        i \in {"stop", "start_workout", "start_bicep_curl", "start_lateral_raise",
               "ready", "skip"} }
    \cup { VoiceResult(NoIntent, "chat", Some(20)) }

\* Arm positions: curled (elbow closed), hanging, raised to the side.
ArmCurled == Arm(Some(45), Some(10), None, None, None, None)
ArmDown == Arm(Some(160), Some(10), None, None, None, None)
ArmRaised == Arm(Some(160), Some(90), None, None, None, None)

\* No landmarks, or both arms in the same position.
OrchPoses == {NoPose} \cup { Pose(a, a, None) : a \in {ArmCurled, ArmDown, ArmRaised} }

\* The workout file: missing, empty, one entry, two entries.
CfgX == ExerciseConfig("bicep_curl", 1, 1, 250)
CfgY == ExerciseConfig("lateral_raise", 1, 1, 250)
OrchFiles == {None, Some(<<>>), Some(<<CfgX>>), Some(<<CfgX, CfgY>>)}

\* The tracker of side s counted a rep in the frame from g1 to g2; the frame
\* took a string from its speech queue.
RepInFrame(g1, g2, s) ==
    /\ HasTrackers(g1.trackers) /\ HasTrackers(g2.trackers)
    /\ g2.trackers[s].reps > g1.trackers[s].reps

PoppedFrom(tr, s) == tr.popped # <<>> /\ tr.popped[1][1] = s

\* The sides whose tracker, after the frame from g1 to g2, still queues the
\* strings of a rep that completed in a frame that found the voice coach not
\* busy, none of them taken since.
Owed(owed, g1, g2) ==
    {s \in {"L", "R"} :
        /\ HasTrackers(g2.trackers) /\ g2.trackers[s].speech_queue # <<>>
        /\ ~PoppedFrom(g2.tr, s)
        /\ IF RepInFrame(g1, g2, s) THEN ~g2.tr.busy ELSE s \in owed}

\* The frame from g1 to g2 in a run w: the scores of the block's completed
\* reps and the sides still owed their spoken feedback brought up to date.
Account(w, g1, g2, done) ==
    LET started == /\ Val(g2.tr.mid).state \in ActiveStates
                   /\ g1.o.state \notin ActiveStates \cup {STATE_REST}
    IN [g |-> g2,
        block |-> (IF started THEN <<>> ELSE w.block) \o done,
        owed |-> Owed(w.owed, g1, g2)]

\* One frame of a run, no key pressed and the voice worker not running: the
\* result heard before it (if any), then the frame.
RunFrame(w, result, pose, dt) ==
    Then(IF IsNone(result) THEN w.g ELSE Hear(w.g, Val(result)), LAMBDA g1 :
      Then(Frame(g1, pose, dt, NoKey),
           LAMBDA g2 : Account(w, g1, g2, CompletedInFrame(g1, pose, dt))))

\* The frames lo..hi of a script, run one after the other from w (the first
\* half, then the second half), and a whole script.
RECURSIVE RunRange(_, _, _, _)
RunRange(w, script, lo, hi) ==
    IF lo = hi
    THEN RunFrame(w, script[lo][1], script[lo][2], script[lo][3])
    ELSE Then(RunRange(w, script, lo, (lo + hi) \div 2),
              LAMBDA w2 : RunRange(w2, script, (lo + hi) \div 2 + 1, hi))

Run(w, script) == IF script = <<>> THEN w ELSE RunRange(w, script, 1, Len(script))

RECURSIVE Repeat(_, _)
Repeat(s, n) == IF n = 0 THEN <<>> ELSE s \o Repeat(s, n - 1)

\* A clean set of the ad-hoc curl block (8 reps on both sides), and the
\* block up to a quarter second before the end of the rest after set k.
CleanCurlSet ==
    Repeat(<< <<None, Pose(ArmCurled, ArmCurled, None), FrameStep>>,
              <<None, Pose(ArmDown, ArmDown, None), FrameStep>> >>, 8)
AdHocUntilRest(k) ==
    << <<Some(VoiceResult("start_bicep_curl", "", None)), NoPose, FrameStep>> >>
    \o Repeat(CleanCurlSet \o << <<None, NoPose, 60000>> >>, k - 1)
    \o CleanCurlSet
    \o << <<None, NoPose, 60000 - 2 * FrameStep>> >>

\* The ad-hoc curl block at the frame that completed its first set: the rest
\* has just begun.
AdHocRestBegun ==
    << <<Some(VoiceResult("start_bicep_curl", "", None)), NoPose, FrameStep>> >>
    \o CleanCurlSet

\* The ad-hoc curl block in its second set, seven reps done and the eighth
\* begun.
AdHocSecondSetEnding ==
    << <<Some(VoiceResult("start_bicep_curl", "", None)), NoPose, FrameStep>> >>
    \o CleanCurlSet
    \o << <<None, NoPose, 60000>> >>
    \o Repeat(<< <<None, Pose(ArmCurled, ArmCurled, None), FrameStep>>,
                 <<None, Pose(ArmDown, ArmDown, None), FrameStep>> >>, 7)
    \o << <<None, Pose(ArmCurled, ArmCurled, None), FrameStep>> >>

\* The ad-hoc curl block in its first set, two reps done and the third begun.
AdHocMidSet ==
    << <<Some(VoiceResult("start_bicep_curl", "", None)), NoPose, FrameStep>> >>
    \o Repeat(<< <<None, Pose(ArmCurled, ArmCurled, None), FrameStep>>,
                 <<None, Pose(ArmDown, ArmDown, None), FrameStep>> >>, 2)
    \o << <<None, Pose(ArmCurled, ArmCurled, None), FrameStep>> >>

\* The routine of the workout file up to the frame before the first rep of
\* its first entry (a curl) completes, after the first entry was skipped,
\* and up to the frame before the first rep of its second entry (a lateral
\* raise) completes.
RoutineUntilFirstRep ==
    << <<Some(VoiceResult("start_workout", "", None)), NoPose, FrameStep>>,
       <<Some(VoiceResult("ready", "", None)), NoPose, FrameStep>>,
       <<None, Pose(ArmCurled, ArmCurled, None), FrameStep>> >>
RoutineSkippedOnce ==
    << <<Some(VoiceResult("start_workout", "", None)), NoPose, FrameStep>>,
       <<Some(VoiceResult("skip", "", None)), NoPose, FrameStep>> >>
RoutineUntilSecondEntry ==
    RoutineUntilFirstRep
    \o << <<None, Pose(ArmDown, ArmDown, None), FrameStep>>,
          <<None, NoPose, FrameStep>>,
          <<Some(VoiceResult("ready", "", None)), NoPose, FrameStep>>,
          <<None, Pose(ArmRaised, ArmRaised, None), FrameStep>> >>

\* Where the exploration starts: main() before its first frame, for every
\* workout file, and main() after one of the runs above.
OrchStarts ==
    { <<csv, <<>> >> : csv \in OrchFiles }
    \cup { <<None, AdHocUntilRest(1)>>, <<None, AdHocUntilRest(3)>>,
           <<None, AdHocMidSet>>, <<None, AdHocRestBegun>>,
           <<None, AdHocSecondSetEnding>>,
           <<Some(<<CfgX>>), RoutineUntilFirstRep>>,
           <<Some(<<CfgX, CfgY>>), RoutineUntilFirstRep>>,
           <<Some(<<CfgX, CfgY>>), RoutineSkippedOnce>>,
           <<Some(<<CfgX, CfgY>>), RoutineUntilSecondEntry>> }

InitOrch ==
    \E start \in OrchStarts, key \in ApiKeys :
       \E w \in {Run([g |-> NewMain(start[1], key), block |-> <<>>, owed |-> {}], start[2])} :
             /\ now = w.g.now
             /\ trackers = w.g.trackers
             /\ session = w.g.session
             /\ routine = w.g.routine
             /\ orch = w.g.o
             /\ last = [op |-> "init", ret |-> w.g.tr]
             /\ obs = [frames |-> 0, keys |-> 0, block |-> w.block, owed |-> w.owed]

\* The state of main() in the variables.
World ==
    [g |-> [now |-> now, trackers |-> trackers, session |-> session,
            routine |-> routine, o |-> orch, tr |-> last.ret],
     block |-> obs.block, owed |-> obs.owed]

\* The keys an explored frame may end with: 'm' is pressed at most
\* MaxKeyPresses times.
Pressed(tr) == IF tr.key = NoKey THEN 0 ELSE 1
KeysLeft == IF obs.keys < MaxKeyPresses THEN Keys ELSE {NoKey}

\* One iteration of the loop of main(), with a pose of the set poses and a
\* key, the voice worker running alongside, as long as fewer than max frames
\* have been explored.
FrameAction(poses, max) ==
    /\ obs.frames < max
    /\ \E pose \in poses :
          \E w \in {Account(World, World.g, g2, CompletedInFrame(World.g, pose, FrameStep)) :
                        g2 \in Frames(World.g, pose, FrameStep, KeysLeft, TRUE)} :
             /\ now' = w.g.now
             /\ trackers' = w.g.trackers
             /\ session' = w.g.session
             /\ routine' = w.g.routine
             /\ orch' = w.g.o
             /\ last' = [op |-> "frame", ret |-> w.g.tr]
             /\ obs' = [frames |-> obs.frames + 1, keys |-> obs.keys + Pressed(w.g.tr),
                        block |-> w.block, owed |-> w.owed]

\* The listener's thread delivers a result, as long as fewer than max
\* results are waiting.
HearAction(max) ==
    /\ Len(orch.queue) < max
    /\ \E result \in OrchResults : orch' = Hear(World.g, result).o
    /\ last' = [last EXCEPT !.op = "hear"]
    /\ UNCHANGED <<now, trackers, session, routine, obs>>

OrFrame == FrameAction(OrchPoses, MaxOrchFrames)

\* A result is delivered while frames remain to be explored that can take it.
OrHear == obs.frames < MaxOrchFrames /\ HearAction(MaxQueue)

\* The voice worker takes the pending text.
OrVoiceTake ==
    /\ ~IsNone(orch.voice.pending) /\ ~orch.voice.taken /\ ~orch.voice.busy
    /\ orch' = [orch EXCEPT !.voice = VoiceTake(@)]
    /\ last' = [last EXCEPT !.op = "voice_take"]
    /\ UNCHANGED <<now, trackers, session, routine, obs>>

\* The voice worker starts speaking the text it took.
OrVoiceStart ==
    /\ orch.voice.taken /\ ~orch.voice.busy
    /\ orch' = [orch EXCEPT !.voice = VoiceStart(@)]
    /\ last' = [last EXCEPT !.op = "voice_start"]
    /\ UNCHANGED <<now, trackers, session, routine, obs>>

\* The voice worker has finished speaking.
OrVoiceDone ==
    /\ orch.voice.busy
    /\ orch' = [orch EXCEPT !.voice = VoiceDone(@)]
    /\ last' = [last EXCEPT !.op = "voice_done"]
    /\ UNCHANGED <<now, trackers, session, routine, obs>>

NextOrch == OrFrame \/ OrHear \/ OrVoiceTake \/ OrVoiceStart \/ OrVoiceDone

SpecOrch == InitOrch /\ [][NextOrch]_vars

-----------------------------------------------------------------------------
(* SpecListener: main() before its first exercise, with a listener that    *)
(* runs ahead of the frame loop, so that results wait in the queue.        *)

MaxListenerFrames == 3      \* frames explored
MaxListenerQueue == 2       \* results waiting in the listener's queue

InitListener ==
    \E csv \in OrchFiles, key \in ApiKeys :
          \E g \in {NewMain(csv, key)} :
             /\ now = g.now
             /\ trackers = g.trackers
             /\ session = g.session
             /\ routine = g.routine
             /\ orch = g.o
             /\ last = [op |-> "init", ret |-> g.tr]
             /\ obs = [frames |-> 0, keys |-> 0, block |-> <<>>, owed |-> {}]

LsFrame == FrameAction({NoPose}, MaxListenerFrames)

\* A result is delivered while frames remain to be explored that can take it.
LsHear == obs.frames < MaxListenerFrames /\ HearAction(MaxListenerQueue)

\* The voice worker, which main() starts with the voice coach (line 695),
\* runs beside the frames and the listener.
NextListener == LsFrame \/ LsHear \/ OrVoiceTake \/ OrVoiceStart \/ OrVoiceDone

SpecListener == InitListener /\ [][NextListener]_vars

-----------------------------------------------------------------------------
(* SpecNulls: one tracker fed frames in which every optional measurement   *)
(* is, independently of the others, missing or present.  The tracker       *)
(* starts fresh or with its shoulder-ear reference calibrated.  last.ret   *)
(* is the frame of the last update; obs counts the updates.                *)

MaxNullUpdates == 2         \* update() calls explored
MaxNullTicks == 2           \* the clock stops after this many 500 ms ticks

\* Optional measurements: lean 30 degrees, wrist angle 150, shoulder-ear
\* distance 0.20 (the reference) or 0.10 (a shrug), elbow flare 0.10,
\* supination 0.00.
NullFrames(kind) ==
    IF kind = "bicep_curl"
    THEN {[elbow |-> e, shoulder |-> 10, lean |-> l, wrist |-> w,
           sh_ear |-> d, flare |-> fl, sup |-> su] :
             e \in {45, 145}, l \in {None, Some(30)}, w \in {None, Some(150)},
             d \in {None, Some(20), Some(10)}, fl \in {None, Some(10)},
             su \in {None, Some(0)}}
    ELSE {[shoulder |-> a, elbow |-> 160, lean |-> l, sh_ear |-> d] :
             a \in {20, 90}, l \in {None, Some(30)},
             d \in {None, Some(20), Some(10)}}

\* A frame inside the hysteresis band with nothing but a shoulder-ear
\* distance, and the tracker after n such frames.
CalibrationFrame(kind) ==
    IF kind = "bicep_curl"
    THEN [elbow |-> 100, shoulder |-> 10, lean |-> None, wrist |-> None,
          sh_ear |-> Some(20), flare |-> None, sup |-> None]
    ELSE [shoulder |-> 50, elbow |-> 160, lean |-> None, sh_ear |-> Some(20)]

RECURSIVE Calibrated(_, _)
Calibrated(kind, n) ==
    IF n = 0 THEN NewTracker(kind, "L")
    ELSE TrackerUpdate(Calibrated(kind, n - 1), CalibrationFrame(kind), 0)

InitNulls ==
    /\ now = 0
    /\ \E kind \in ExerciseKinds, n \in {0, SHRUG_SAMPLES} :
          trackers = [side \in {"L"} |-> Calibrated(kind, n)]
    /\ session = None
    /\ routine = None
    /\ last = NoLast
    /\ obs = [updates |-> 0]
    /\ orch = NoOrch

\* tracker.update(..., now)
NuUpdate ==
    /\ obs.updates < MaxNullUpdates
    /\ \E f \in NullFrames(trackers["L"].kind) :
          /\ trackers' = [trackers EXCEPT !["L"] = TrackerUpdate(@, f, now)]
          /\ last' = [op |-> "update", ret |-> f]
    /\ obs' = [updates |-> obs.updates + 1]
    /\ UNCHANGED <<orch, now, session, routine>>

NuTick ==
    /\ now + 500 <= MaxNullTicks * 500
    /\ now' = now + 500
    /\ last' = [last EXCEPT !.op = "tick"]
    /\ UNCHANGED <<orch, trackers, session, routine, obs>>

NextNulls == NuUpdate \/ NuTick

SpecNulls == InitNulls /\ [][NextNulls]_vars

-----------------------------------------------------------------------------
(* SpecLive: one tracker with a calibrated shoulder-ear reference, in      *)
(* phase Down or in phase Up of a running rep, fed frames with one form    *)
(* flaw at most and read with get_live_alerts under a non-decreasing       *)
(* clock.  last.ret is the frame of an update or the list a read returned; *)
(* obs.seen maps each alert message to the time of the last frame whose    *)
(* own measurement was past that alert's threshold.                        *)

MaxLiveUpdates == 2         \* update() calls explored
MaxLiveTicks == 3           \* the clock stops after this many 250 ms ticks

\* Frames in the band, past the closed and past the open threshold; clean,
\* with a shrug (shoulder-ear distance 0.10 against the reference 0.20),
\* with a lean of 30 degrees, or with the arm out of line (curl: shoulder
\* swing 50; lateral raise: elbow bent to 100).
LiveFrames(kind) ==
    IF kind = "bicep_curl"
    THEN {[elbow |-> e, shoulder |-> p[1], lean |-> p[2], wrist |-> None,
           sh_ear |-> Some(p[3]), flare |-> None, sup |-> None] :
             e \in {100, 45, 160},
             p \in {<<10, None, 20>>, <<10, None, 10>>, <<10, Some(30), 20>>,
                    <<50, None, 20>>}}
    ELSE {[shoulder |-> a, elbow |-> p[1], lean |-> p[2], sh_ear |-> Some(p[3])] :
             a \in {50, 90, 20},
             p \in {<<160, None, 20>>, <<160, None, 10>>, <<160, Some(30), 20>>,
                    <<100, None, 20>>}}

\* The live alerts of a tracker class and, for each, whether the frame's own
\* measurement is past its threshold (for the shrug alerts: whether the
\* frame's shoulder-ear distance is below SHRUG_RATIO_WARN of the reference
\* ref, in hundredths).
LiveMessages(kind) ==
    IF kind = "bicep_curl"
    THEN {"Pin elbow to side!", "Elbow drifting", "Stop leaning back!",
          "Brace your core", "Relax traps!", "Tuck elbow in!",
          "Supinate - rotate palm up!"}
    ELSE {"Too high! Stop at shoulder level", "Stop swaying!", "Brace your core",
          "Relax traps - don't shrug!", "Straighten arms more!",
          "Bend elbows slightly!"}

FrameShrug(f, ref) ==
    /\ ~IsNone(f.sh_ear) /\ Val(f.sh_ear) >= 1
    /\ ref > 0 /\ 100 * Val(f.sh_ear) < ref * SHRUG_RATIO_WARN

FramePast(kind, m, f, ref) ==
    IF kind = "bicep_curl"
    THEN CASE m = "Pin elbow to side!" -> f.shoulder > SWING_BAD
           [] m = "Elbow drifting" -> f.shoulder > SWING_WARN /\ f.shoulder <= SWING_BAD
           [] m = "Stop leaning back!" -> ~IsNone(f.lean) /\ Val(f.lean) > LEAN_BAD
           [] m = "Brace your core" ->
                 ~IsNone(f.lean) /\ Val(f.lean) > LEAN_WARN /\ Val(f.lean) <= LEAN_BAD
           [] m = "Relax traps!" -> FrameShrug(f, ref)
           [] m = "Tuck elbow in!" -> ~IsNone(f.flare) /\ Val(f.flare) > FLARE_WARN
           [] m = "Supinate - rotate palm up!" ->
                 ~IsNone(f.sup) /\ Val(f.sup) < SUP_NEUTRAL
    ELSE CASE m = "Too high! Stop at shoulder level" -> f.shoulder > OVER_RAISE
           [] m = "Stop swaying!" -> ~IsNone(f.lean) /\ Val(f.lean) > RAISE_LEAN_BAD
           [] m = "Brace your core" ->
                 /\ ~IsNone(f.lean) /\ Val(f.lean) > RAISE_LEAN_WARN
                 /\ Val(f.lean) <= RAISE_LEAN_BAD
           [] m = "Relax traps - don't shrug!" -> FrameShrug(f, ref)
           [] m = "Straighten arms more!" -> f.elbow < ELBOW_TOO_BENT
           [] m = "Bend elbows slightly!" -> f.elbow > ELBOW_TOO_STRAIGHT

\* The calibrated tracker in phase Down, and in phase Up after one clean
\* frame past the closed threshold at clock 0.
LiveStarts(kind) ==
    { Calibrated(kind, SHRUG_SAMPLES),
      TrackerUpdate(Calibrated(kind, SHRUG_SAMPLES),
                    IF kind = "bicep_curl"
                    THEN [CalibrationFrame(kind) EXCEPT !.elbow = 45]
                    ELSE [CalibrationFrame(kind) EXCEPT !.shoulder = 90], 0) }

InitLive ==
    /\ now = 0
    /\ \E kind \in ExerciseKinds : \E t \in LiveStarts(kind) :
          trackers = [side \in {"L"} |-> t]
    /\ session = None
    /\ routine = None
    /\ last = NoLast
    /\ obs = [updates |-> 0, seen |-> <<>>]
    /\ orch = NoOrch

\* tracker.update(..., now)
LvUpdate ==
    /\ obs.updates < MaxLiveUpdates
    /\ \E f \in LiveFrames(trackers["L"].kind) :
          LET t == trackers["L"]
              past == {m \in LiveMessages(t.kind) : FramePast(t.kind, m, f, t.ref_sh_ear)}
          IN /\ trackers' = [trackers EXCEPT !["L"] = TrackerUpdate(t, f, now)]
             /\ last' = [op |-> "update", ret |-> f]
             /\ obs' = [updates |-> obs.updates + 1,
                        seen |-> [m \in DOMAIN obs.seen \cup past |->
                                     IF m \in past THEN now ELSE obs.seen[m]]]
    /\ UNCHANGED <<orch, now, session, routine>>

\* tracker.get_live_alerts(now)
LvGetLiveAlerts ==
    /\ last' = [op |-> "get_live_alerts",
                ret |-> ActiveAlerts(trackers["L"].live_triggers, now)]
    /\ trackers' = [trackers EXCEPT !["L"].live_triggers = EvictExpired(@, now)]
    /\ UNCHANGED <<orch, now, session, routine, obs>>

LvTick ==
    /\ now + 250 <= MaxLiveTicks * 250
    /\ now' = now + 250
    /\ last' = [op |-> "tick", ret |-> None]
    /\ UNCHANGED <<orch, trackers, session, routine, obs>>

NextLive == LvUpdate \/ LvGetLiveAlerts \/ LvTick

SpecLive == InitLive /\ [][NextLive]_vars

-----------------------------------------------------------------------------
(* SpecCarry: two trackers of one class in the middle of their first rep,  *)
(* with different measurements behind them, fed the same frames at the     *)
(* same times from then on.  obs.same_ref says whether the two began with  *)
(* the same shrug reference; last.ret says whether the update completed a  *)
(* rep.                                                                    *)

MaxCarryUpdates == 3        \* update() calls explored
MaxCarryTicks == 3          \* the clock stops after this many 500 ms ticks

\* The per-rep accumulators of a tracker class.
AccFields(kind) ==
    IF kind = "bicep_curl"
    THEN {"peak_swing", "peak_lean", "min_elbow", "max_elbow", "peak_wrist_dev",
          "peak_flare", "shrug_detected", "min_supination", "con_time"}
    ELSE {"peak_shoulder_angle", "min_elbow_angle", "peak_lean", "shrug_detected",
          "up_time"}

\* A frame past the closed threshold with the given lean, shoulder-ear
\* distance and off-line arm (curl: shoulder swing; raise: elbow angle).
ClosedFrame(kind, lean, sh_ear, arm) ==
    IF kind = "bicep_curl"
    THEN [elbow |-> 45, shoulder |-> arm[1], lean |-> lean, wrist |-> None,
          sh_ear |-> sh_ear, flare |-> None, sup |-> None]
    ELSE [shoulder |-> 90, elbow |-> arm[2], lean |-> lean, sh_ear |-> sh_ear]

\* Trackers in phase Up of their first rep: calibrated and clean so far;
\* calibrated, with a lean, a shrug and the arm off line; never given a
\* shoulder-ear distance, with a lean.
CarryStarts(kind) ==
    { TrackerUpdate(Calibrated(kind, SHRUG_SAMPLES),
                    ClosedFrame(kind, None, Some(20), <<10, 160>>), 0),
      TrackerUpdate(Calibrated(kind, SHRUG_SAMPLES),
                    ClosedFrame(kind, Some(30), Some(10), <<50, 100>>), 0),
      TrackerUpdate(NewTracker(kind, "L"),
                    ClosedFrame(kind, Some(30), None, <<10, 160>>), 0) }

\* Frames in the band, past the closed and past the open threshold; clean,
\* with a shrunk shoulder-ear distance, or with a lean.
CarryFrames(kind) ==
    IF kind = "bicep_curl"
    THEN {[elbow |-> e, shoulder |-> 10, lean |-> p[1], wrist |-> None,
           sh_ear |-> Some(p[2]), flare |-> None, sup |-> None] :
             e \in {100, 45, 160}, p \in {<<None, 20>>, <<None, 10>>, <<Some(30), 20>>}}
    ELSE {[shoulder |-> a, elbow |-> 160, lean |-> p[1], sh_ear |-> Some(p[2])] :
             a \in {50, 90, 20}, p \in {<<None, 20>>, <<None, 10>>, <<Some(30), 20>>}}

InitCarry ==
    /\ now = 0
    /\ \E kind \in ExerciseKinds :
          \E l \in CarryStarts(kind), r \in CarryStarts(kind) :
             /\ l # r
             /\ trackers = [side \in {"L", "R"} |->
                               IF side = "L" THEN l ELSE [r EXCEPT !.side = "R"]]
             /\ obs = [updates |-> 0,
                       same_ref |-> /\ l.ref_sh_ear = r.ref_sh_ear
                                    /\ l.sh_ear_samples = r.sh_ear_samples]
    /\ session = None
    /\ routine = None
    /\ last = NoLast
    /\ orch = NoOrch

\* tracker.update(..., now) on both trackers with the same arguments
CyUpdate ==
    /\ obs.updates < MaxCarryUpdates
    /\ \E f \in CarryFrames(trackers["L"].kind) :
          /\ trackers' = [side \in {"L", "R"} |-> TrackerUpdate(trackers[side], f, now)]
          /\ last' = [op |-> "update",
                      ret |-> TrackerUpdate(trackers["L"], f, now).reps # trackers["L"].reps]
    /\ obs' = [obs EXCEPT !.updates = @ + 1]
    /\ UNCHANGED <<orch, now, session, routine>>

CyTick ==
    /\ now + 500 <= MaxCarryTicks * 500
    /\ now' = now + 500
    /\ last' = [op |-> "tick", ret |-> None]
    /\ UNCHANGED <<orch, trackers, session, routine, obs>>

NextCarry == CyUpdate \/ CyTick

SpecCarry == InitCarry /\ [][NextCarry]_vars

-----------------------------------------------------------------------------
(* SpecShrug: one tracker at the start, near the end or at the end of its  *)
(* shrug calibration, fed frames inside the hysteresis band that differ    *)
(* in the shoulder-ear distance only: missing, under 0.01, or 0.10, 0.20   *)
(* and 0.30.  obs.seen is the list of the non-null distances passed to     *)
(* update() so far.                                                        *)

MaxShrugUpdates == 4        \* update() calls explored

ShrugDistances == {None, Some(0), Some(10), Some(20), Some(30)}

ShrugFrame(kind, d) == [CalibrationFrame(kind) EXCEPT !.sh_ear = d]

ShrugStarts == {0, SHRUG_SAMPLES - 2, SHRUG_SAMPLES}

InitShrug ==
    /\ now = 0
    /\ \E kind \in ExerciseKinds, n \in ShrugStarts :
          /\ trackers = [side \in {"L"} |-> Calibrated(kind, n)]
          /\ obs = [updates |-> 0,
                    seen |-> [i \in 1..n |-> Val(CalibrationFrame(kind).sh_ear)]]
    /\ session = None
    /\ routine = None
    /\ last = NoLast
    /\ orch = NoOrch

\* tracker.update(..., now)
ShUpdate ==
    /\ obs.updates < MaxShrugUpdates
    /\ \E d \in ShrugDistances :
          /\ trackers' = [trackers EXCEPT
                            !["L"] = TrackerUpdate(@, ShrugFrame(@.kind, d), now)]
          /\ last' = [op |-> "update", ret |-> d]
          /\ obs' = [updates |-> obs.updates + 1,
                     seen |-> IF IsNone(d) THEN obs.seen ELSE Append(obs.seen, Val(d))]
    /\ UNCHANGED <<orch, now, session, routine>>

NextShrug == ShUpdate

SpecShrug == InitShrug /\ [][NextShrug]_vars

-----------------------------------------------------------------------------
(* SpecThreads: the voice command listener (src/backend/voice_command.py). *)
(* The background listener calls _audio_callback once per utterance, in    *)
(* the order spoken; each call that is not muted starts a thread running   *)
(* _process_audio, which checks the mute again, transcribes and classifies *)
(* (_is_muted holds no lock: its reads of is_busy and of the clock and its *)
(* store or comparison of the deadline are steps of their own)             *)
(* (a blocking call of any duration) and then puts a result on the command *)
(* queue or drops the utterance.  The frame loop calls get_command().      *)
(* orch holds the listener and the coach's busy flag; obs.spoken counts    *)
(* the utterances and obs.received lists, by utterance number, the results *)
(* the frame loop has taken.                                               *)

MUTE_GRACE == 500

MaxUtterances == 3          \* utterances spoken
MaxThreadTicks == 2         \* the clock stops after this many 500 ms ticks

\* VoiceCommandListener.__init__: the queue, the mute deadline, and the
\* calls in progress: the _audio_callback running on the background
\* listener's thread, if any, and the threads it started that have not
\* returned.  Each call has its audio, named by the utterance number, its
\* stage ("callback", or "started" and "transcribing" for a thread) and,
\* while it is inside _is_muted(), how far it has got there (at) with what
\* it has read so far: the coach's is_busy (spk) and the clock (tm).
NewListener == [command_queue |-> <<>>, mute_until |-> 0, threads |-> {}]

\* A call of stage st for the utterance audio, about to call _is_muted().
Call(audio, st) == [audio |-> audio, stage |-> st, at |-> "call", spk |-> FALSE, tm |-> 0]

\* _is_muted() has read is_speaking_fn() (line 210).
IsMutedBusy(c, speaking) == [c EXCEPT !.at = "busy", !.spk = speaking]

\* _is_muted() has read time.time() (line 211 or 213).
IsMutedClock(c, tm) == [c EXCEPT !.at = "clock", !.tm = tm]

\* _is_muted() from there to its return, for the call c: the value returned
\* and the listener after it.  Having read is_busy true it stores the
\* deadline it computed from its reading of the clock; otherwise it compares
\* its reading of the clock with the deadline now stored.  No lock is held.
IsMuted(l, c) ==
    IF c.spk
    THEN [ret |-> TRUE, l |-> [l EXCEPT !.mute_until = c.tm + MUTE_GRACE]]
    ELSE [ret |-> c.tm < l.mute_until, l |-> l]

\* _audio_callback(recognizer, audio) from the return of _is_muted(): it
\* returns, having started a thread if not muted.
AudioCallback(l, c) ==
    LET m == IsMuted(l, c)
        rest == m.l.threads \ {c}
    IN IF m.ret THEN [m.l EXCEPT !.threads = rest]
       ELSE [m.l EXCEPT !.threads = rest \cup {Call(c.audio, "started")}]

\* _process_audio(audio) from the return of _is_muted() up to the call of
\* transcribe.
ProcessAudioBegin(l, c) ==
    LET m == IsMuted(l, c)
        rest == m.l.threads \ {c}
    IN IF m.ret THEN [m.l EXCEPT !.threads = rest]
       ELSE [m.l EXCEPT !.threads =
                rest \cup {[Call(c.audio, "transcribing") EXCEPT !.at = "done"]}]

\* _process_audio(audio) from the return of transcribe: a result is put on
\* the command queue (put = TRUE) or the utterance is dropped (empty or
\* filler transcript, intent unknown or ignore, an exception).
ProcessAudioEnd(l, audio, put) ==
    [l EXCEPT !.threads = {t \in @ : t.audio # audio},
              !.command_queue = IF put THEN Append(@, audio) ELSE @]

InitThreads ==
    /\ now = 0
    /\ trackers = NoTrackers
    /\ session = None
    /\ routine = None
    /\ last = NoLast
    /\ obs = [spoken |-> 0, received |-> <<>>]
    /\ orch = [listener |-> NewListener, speaking |-> FALSE]

\* The background listener has detected the next utterance: its thread,
\* which runs one callback at a time, calls _audio_callback, which calls
\* _is_muted() and reads is_busy.
ThAudioCallback ==
    /\ obs.spoken < MaxUtterances
    /\ \A c \in orch.listener.threads : c.stage # "callback"
    /\ orch' = [orch EXCEPT
                  !.listener.threads =
                      @ \cup {IsMutedBusy(Call(obs.spoken + 1, "callback"), orch.speaking)}]
    /\ obs' = [obs EXCEPT !.spoken = @ + 1]
    /\ last' = [op |-> "audio_callback", ret |-> Some(obs.spoken + 1)]
    /\ UNCHANGED <<now, trackers, session, routine>>

\* A started thread enters _process_audio, which calls _is_muted() and
\* reads is_busy.
ThProcessBegin ==
    /\ \E c \in orch.listener.threads :
          /\ c.stage = "started" /\ c.at = "call"
          /\ orch' = [orch EXCEPT
                        !.listener.threads =
                            (@ \ {c}) \cup {IsMutedBusy(c, orch.speaking)}]
          /\ last' = [op |-> "process_begin", ret |-> Some(c.audio)]
    /\ UNCHANGED <<now, trackers, session, routine, obs>>

\* A call inside _is_muted() reads the clock.
ThMutedClock ==
    /\ \E c \in orch.listener.threads :
          /\ c.at = "busy"
          /\ orch' = [orch EXCEPT
                        !.listener.threads = (@ \ {c}) \cup {IsMutedClock(c, now)}]
          /\ last' = [op |-> "muted_clock", ret |-> Some(c.audio)]
    /\ UNCHANGED <<now, trackers, session, routine, obs>>

\* A call inside _is_muted() stores or compares the deadline and goes on to
\* the end of _audio_callback or, in a thread, to the call of transcribe.
ThMutedReturn ==
    /\ \E c \in orch.listener.threads :
          /\ c.at = "clock"
          /\ orch' = [orch EXCEPT
                        !.listener = IF c.stage = "callback"
                                     THEN AudioCallback(@, c)
                                     ELSE ProcessAudioBegin(@, c)]
          /\ last' = [op |-> "muted_return", ret |-> Some(c.audio)]
    /\ UNCHANGED <<now, trackers, session, routine, obs>>

\* A thread's transcription and classification return.
ThProcessEnd ==
    /\ \E t \in orch.listener.threads, put \in BOOLEAN :
          /\ t.stage = "transcribing"
          /\ orch' = [orch EXCEPT !.listener = ProcessAudioEnd(@, t.audio, put)]
          /\ last' = [op |-> "process_end", ret |-> Some(t.audio)]
    /\ UNCHANGED <<now, trackers, session, routine, obs>>

\* The frame loop calls listener.get_command().
ThGetCommand ==
    /\ orch.listener.command_queue # <<>>
    /\ \E got \in {GetCommand(orch.listener.command_queue)} :
          /\ orch' = [orch EXCEPT !.listener.command_queue = got.q]
          /\ obs' = [obs EXCEPT !.received = Append(@, Val(got.ret))]
          /\ last' = [op |-> "get_command", ret |-> got.ret]
    /\ UNCHANGED <<now, trackers, session, routine>>

\* The voice coach starts or stops speaking (is_speaking_fn is voice.is_busy).
ThSpeaking ==
    /\ orch' = [orch EXCEPT !.speaking = ~@]
    /\ last' = [op |-> "speaking", ret |-> None]
    /\ UNCHANGED <<now, trackers, session, routine, obs>>

ThTick ==
    /\ now + 500 <= MaxThreadTicks * 500
    /\ now' = now + 500
    /\ last' = [op |-> "tick", ret |-> None]
    /\ UNCHANGED <<orch, trackers, session, routine, obs>>

NextThreads ==
    \/ ThAudioCallback \/ ThProcessBegin \/ ThMutedClock \/ ThMutedReturn
    \/ ThProcessEnd
    \/ ThGetCommand \/ ThSpeaking \/ ThTick

SpecThreads == InitThreads /\ [][NextThreads]_vars

-----------------------------------------------------------------------------
(* SpecRest: main() from the frame that began a rest, or from a frame late *)
(* in a rest, with no result ever waiting in the listener's queue.  Frames *)
(* follow each other a quarter second or twenty seconds apart for as long  *)
(* as the orchestrator rests, and a few frames more; the loop keeps        *)
(* running (weak fairness on the frame).  obs.frames counts the frames     *)
(* that began outside Resting.                                             *)

MaxRestFrames == 2          \* frames explored outside Resting

\* The routine of the workout file up to the frame that completed the only
\* set of its first entry.
RoutineRestBegun ==
    RoutineUntilFirstRep \o << <<None, Pose(ArmDown, ArmDown, None), FrameStep>> >>

RestStarts ==
    { <<None, AdHocRestBegun>>, <<None, AdHocUntilRest(3)>>,
      <<Some(<<CfgX>>), RoutineRestBegun>>,
      <<Some(<<CfgX, CfgY>>), RoutineRestBegun>> }

RestSteps == {80 * FrameStep, 81 * FrameStep}

InitRest ==
    \E start \in RestStarts, key \in ApiKeys :
       \E w \in {Run([g |-> NewMain(start[1], key), block |-> <<>>, owed |-> {}], start[2])} :
             /\ now = w.g.now
             /\ trackers = w.g.trackers
             /\ session = w.g.session
             /\ routine = w.g.routine
             /\ orch = w.g.o
             /\ last = [op |-> "init", ret |-> w.g.tr]
             /\ obs = [frames |-> 0, keys |-> 0, block |-> w.block, owed |-> w.owed]

\* One iteration of the loop of main() with an empty command queue, the
\* voice worker running alongside.
ReFrame ==
    /\ orch.state = STATE_REST \/ obs.frames < MaxRestFrames
    /\ \E pose \in OrchPoses, dt \in RestSteps :
          \E w \in {Account(World, World.g, g2, CompletedInFrame(World.g, pose, dt)) :
                        g2 \in Frames(World.g, pose, dt, KeysLeft, TRUE)} :
             /\ now' = w.g.now
             /\ trackers' = w.g.trackers
             /\ session' = w.g.session
             /\ routine' = w.g.routine
             /\ orch' = w.g.o
             /\ last' = [op |-> "frame", ret |-> w.g.tr]
             /\ obs' = [frames |-> obs.frames + (IF orch.state = STATE_REST THEN 0 ELSE 1),
                        keys |-> obs.keys + Pressed(w.g.tr),
                        block |-> w.block, owed |-> w.owed]

NextRest == ReFrame \/ OrVoiceTake \/ OrVoiceStart \/ OrVoiceDone

SpecRest == InitRest /\ [][NextRest]_vars /\ WF_vars(ReFrame)

-----------------------------------------------------------------------------
(* SpecScore: one curl tracker, new or with a calibrated shoulder-ear      *)
(* reference, fed frames whose elbow angle is past a threshold by a wide   *)
(* or by a narrow margin, with clean or with the worst form, half a second *)
(* apart at most.  last.ret says whether the update completed a rep.       *)

MaxScoreReps == 2           \* reps counted by the tracker
MaxScoreTicks == 3          \* the clock stops after this many 500 ms ticks

\* Clean form, and every form fault at once; the shoulder-ear distance is
\* given to a calibrated tracker only (0.20 is its reference, 0.10 a shrug).
ScoreFrames(t) ==
    LET calibrated == Len(t.sh_ear_samples) = SHRUG_SAMPLES
    IN {[elbow |-> e, shoulder |-> p.shoulder, lean |-> p.lean, wrist |-> p.wrist,
         sh_ear |-> IF calibrated THEN Some(p.sh_ear) ELSE None,
         flare |-> p.flare, sup |-> p.sup] :
           e \in {45, 59, 141, 160},
           p \in { [shoulder |-> 10, lean |-> None, wrist |-> None, flare |-> None,
                    sup |-> None, sh_ear |-> 20],
                   [shoulder |-> 50, lean |-> Some(30), wrist |-> Some(150),
                    flare |-> Some(10), sup |-> Some(0), sh_ear |-> 10] }}

InitScore ==
    /\ now = 0
    /\ \E n \in {0, SHRUG_SAMPLES} :
          trackers = [side \in {"L"} |-> Calibrated("bicep_curl", n)]
    /\ session = None
    /\ routine = None
    /\ last = NoLast
    /\ obs = NoObs
    /\ orch = NoOrch

\* tracker.update(..., now)
ScUpdate ==
    /\ trackers["L"].reps < MaxScoreReps
    /\ \E f \in ScoreFrames(trackers["L"]) :
          LET t2 == CurlUpdate(trackers["L"], f, now)
          IN /\ trackers' = [trackers EXCEPT !["L"] = t2]
             /\ last' = [op |-> "update", ret |-> t2.reps # trackers["L"].reps]
    /\ UNCHANGED <<orch, now, session, routine, obs>>

ScTick ==
    /\ now + 500 <= MaxScoreTicks * 500
    /\ now' = now + 500
    /\ last' = [last EXCEPT !.op = "tick"]
    /\ UNCHANGED <<orch, trackers, session, routine, obs>>

NextScore == ScUpdate \/ ScTick

SpecScore == InitScore /\ [][NextScore]_vars

-----------------------------------------------------------------------------
(* Claims *)

\* C6: skip_current with a current exercise appends it to the back of the
\* queue (the rest of the queue unchanged, nothing dropped) and clears
\* current; the advance() that follows returns the exercise that headed the
\* queue before the skip (the skipped exercise itself when the queue was
\* empty) and leaves the rest of that order in the queue.
C6_SkipToBack ==
    /\ (last.op = "skip_current" /\ ~IsNone(obs.pc)) =>
          /\ routine.queue = Append(obs.pq, Val(obs.pc))
          /\ IsNone(routine.current)
    /\ (last.op = "advance" /\ obs.pop = "skip_current" /\ ~IsNone(obs.ppc)) =>
          /\ last.ret = Some(Head(Append(obs.ppq, Val(obs.ppc))))
          /\ (obs.ppq # <<>> => last.ret = Some(Head(obs.ppq)))
          /\ routine.current = last.ret
          /\ routine.queue = Tail(Append(obs.ppq, Val(obs.ppc)))

\* current = A with [B, C] remaining; skip, then advance returned B and the
\* order left is [C, A].
C6_Witness ==
    /\ last.op = "advance" /\ obs.pop = "skip_current"
    /\ obs.ppc = Some(CfgA) /\ obs.ppq = <<CfgB, CfgC>>
    /\ obs.pq = <<CfgB, CfgC, CfgA>>
    /\ last.ret = Some(CfgB)
    /\ routine.queue = <<CfgC, CfgA>>

\* C7: after any sequence of advance(), complete_current() and
\* skip_current(), completed + queue length + (1 if current is set) equals
\* the number of exercises loaded.
C7_RoutineAccounting ==
    routine.completed + Len(routine.queue) + (IF IsNone(routine.current) THEN 0 ELSE 1)
        = routine.total

\* C5: check_set_complete(trackers) returns true exactly when the session
\* is neither resting nor finished and some side has reps >= reps_per_set
\* (one side is enough, whatever the other side has).
C5_SetCompleteIsOr ==
    last.op = "check_set_complete" =>
        last.ret = ( /\ ~session.resting
                     /\ ~session.finished
                     /\ \E side \in Sides : last.arg[side] >= session.reps_per_set )

\* One side has reached the target, the other is behind, and the call
\* returned true.
C5_Witness ==
    /\ last.op = "check_set_complete"
    /\ last.ret = TRUE
    /\ last.arg["L"] >= session.reps_per_set
    /\ last.arg["R"] < session.reps_per_set

\* C8: resting and finished are never both true, in any state reachable by
\* the session's operations.
C8_RestingFinishedExclusive == ~(session.resting /\ session.finished)

\* C9: after start(), the k-th advance_set() with k < total_sets returns
\* true and leaves current_set = k + 1, resting false and the session not
\* finished; the total_sets-th returns false and finishes the session.
C9_AdvanceSetCounts ==
    (last.op = "advance_set" /\ obs.started) =>
        /\ obs.k < session.total_sets =>
              /\ last.ret = TRUE
              /\ session.current_set = obs.k + 1
              /\ ~session.resting
              /\ ~session.finished
        /\ obs.k = session.total_sets =>
              /\ last.ret = FALSE
              /\ session.finished

\* total_sets = 3: the third call after start() returned false and finished
\* the session.
C9_Witness ==
    /\ last.op = "advance_set" /\ obs.started
    /\ session.total_sets = 3 /\ obs.k = 3
    /\ last.ret = FALSE /\ session.finished /\ session.current_set = 4

\* C10: rest timing is a function of the clock.  Right after begin_rest()
\* rest_remaining is rest_seconds; it always lies in [0, rest_seconds]; a
\* read returns max(0, rest_seconds - elapsed) while resting; check_rest_done()
\* is true exactly when resting with elapsed >= rest_seconds; and while the
\* session stays in one rest period it never increases.
C10_Inv ==
    /\ RestRemaining(session, now) >= 0
    /\ RestRemaining(session, now) <= session.rest_seconds
    /\ last.op = "begin_rest" =>
          session.resting /\ RestRemaining(session, now) = session.rest_seconds
    /\ last.op = "rest_remaining" =>
          last.ret = IF session.resting
                     THEN Max(0, session.rest_seconds - (now - session.rest_start))
                     ELSE 0
    /\ last.op = "check_rest_done" =>
          last.ret = (session.resting /\ now - session.rest_start >= session.rest_seconds)
C10_Step ==
    (session.resting /\ session'.resting /\ last'.op # "begin_rest") =>
        RestRemaining(session', now') <= RestRemaining(session, now)
C10_RestTiming == []C10_Inv /\ [][C10_Step]_vars

\* A rest begun after the clock had moved, read as done once rest_seconds
\* had elapsed.
C10_Witness ==
    /\ last.op = "check_rest_done" /\ last.ret = TRUE
    /\ session.resting /\ session.rest_start > 0
    /\ now - session.rest_start >= session.rest_seconds

\* C2 as claimed: whatever the phase at the start of the window, as long as
\* the frames of the window have not been past both thresholds (they stayed
\* in the band, or went past one threshold only), no rep is counted.
C2_NoRepWithoutBothCrossings ==
    ~(obs.closed /\ obs.open) => trackers["L"].reps = obs.reps0

\* C2 amended: the same, except that a window that started in phase Up and
\* went past the open threshold (only) has counted that one rep.
C2_Hysteresis ==
    /\ (~obs.closed /\ ~obs.open) => trackers["L"].reps = obs.reps0
    /\ (obs.closed /\ ~obs.open) => trackers["L"].reps = obs.reps0
    /\ (~obs.closed /\ obs.open) =>
          \/ trackers["L"].reps = obs.reps0
          \/ obs.phase0 = PHASE_UP /\ trackers["L"].reps = obs.reps0 + 1

\* A window that started in phase Up after a counted rep: an update inside
\* the band left the tracker Up and counted nothing.
C2_Witness ==
    /\ last.op = "update"
    /\ obs.phase0 = PHASE_UP /\ ~obs.closed /\ ~obs.open
    /\ trackers["L"].phase = PHASE_UP
    /\ trackers["L"].reps = obs.reps0
    /\ trackers["L"].reps > 0

\* C3: a read returns a message exactly when its last trigger is at most
\* LIVE_GRACE old; the dict holds one entry per message and a read returns
\* each message once; an update never removes an entry, and a read removes
\* exactly the entries older than LIVE_GRACE.
C3_Inv ==
    LET lt == trackers["L"].live_triggers
    IN /\ last.op = "get_live_alerts" =>
             /\ \A m \in DOMAIN obs :
                   (now - obs[m] <= LIVE_GRACE) <=> (\E i \in 1..Len(last.ret) : last.ret[i][1] = m)
             /\ \A i, j \in 1..Len(last.ret) : last.ret[i][1] = last.ret[j][1] => i = j
       /\ \A i, j \in 1..Len(lt) : lt[i][1] = lt[j][1] => i = j
       /\ \A i \in 1..Len(lt) : lt[i][1] \in DOMAIN obs /\ lt[i][3] = obs[lt[i][1]]
C3_Step ==
    LET lt == trackers["L"].live_triggers
        lt2 == trackers'["L"].live_triggers
    IN /\ last'.op # "get_live_alerts" =>
             \A e \in Range(lt) : \E e2 \in Range(lt2) : e2[1] = e[1]
       /\ last'.op = "get_live_alerts" =>
             \A e \in Range(lt) : (e \in Range(lt2)) <=> (now - e[3] <= LIVE_GRACE)
C3_Debounce == []C3_Inv /\ [][C3_Step]_vars

\* Two alerts were triggered at different times; a read more than
\* LIVE_GRACE after the older trigger and within it of the newer one
\* returned only the newer one and evicted the other.
C3_Witness ==
    /\ last.op = "get_live_alerts"
    /\ Len(last.ret) = 1
    /\ Cardinality(DOMAIN obs) >= 2
    /\ Len(trackers["L"].live_triggers) = 1
    /\ \E m \in DOMAIN obs : obs[m] > 0 /\ now - obs[m] <= LIVE_GRACE
    /\ \E m \in DOMAIN obs : now - obs[m] > LIVE_GRACE

\* C1: for every rep completed through update(), the stored score is an
\* integer in 0..100 (last_score and every entry of rep_scores), and the
\* stored issue list is ordered bad, warn, info, good: no issue of a more
\* severe tier comes after one of a milder tier.
C1_ScoreRangeAndOrder ==
    LET t == trackers["L"]
        fb == t.active_feedback
    IN /\ Len(t.rep_scores) = t.reps
       /\ \A i \in 1..Len(t.rep_scores) : t.rep_scores[i] \in 0..100
       /\ t.reps > 0 => /\ t.last_score = t.rep_scores[t.reps]
                        /\ fb # <<>>
       /\ \A i, j \in 1..Len(fb) :
            i < j => SEV_PRIORITY(fb[i][2]) <= SEV_PRIORITY(fb[j][2])

\* An update() has just completed a rep whose checks produced issues of
\* three different tiers and a score well below 100.
C1_Witness ==
    LET t == trackers["L"]
        fb == t.active_feedback
    IN /\ last.op = "update" /\ last.ret = TRUE
       /\ t.last_score < 50
       /\ \E i, j, k \in 1..Len(fb) :
            /\ fb[i][2] = SEV_BAD /\ fb[j][2] = SEV_WARN /\ fb[k][2] = SEV_INFO

\* C4: the injury-risk check runs once for every rep completed through
\* update(), after last_score is set; so a completed rep scored at or below
\* INJURY_CRITICAL_SCORE leaves injury_warning true, and a completed rep
\* scored at or below INJURY_BAD_SCORE has been counted in consecutive_bad.
C4_InjuryEscalation ==
    LET t == trackers["L"]
    IN t.reps > 0 =>
         /\ t.last_score <= INJURY_CRITICAL_SCORE => t.injury_warning
         /\ t.last_score <= INJURY_BAD_SCORE => t.consecutive_bad >= 1


\* What the last frame consumed: its command, "none" without one.
LastCmd == IF IsNone(last.ret.result) THEN NoIntent ELSE Val(last.ret.result).intent

\* C11: a frame that consumes a stop while the orchestrator is in Announce,
\* in an exercise state or in Resting ends in Idle, already after its
\* voice-command step, with no session, no routine and no trackers,
\* whatever the phase of the running rep or the time left to rest.
C11_StopGoesIdle ==
    [][ ( /\ last'.op = "frame"
          /\ ~IsNone(last'.ret.result)
          /\ Val(last'.ret.result).intent = "stop"
          /\ orch.state # STATE_IDLE )
        => ( /\ orch'.state = STATE_IDLE
             /\ Val(last'.ret.mid).state = STATE_IDLE
             /\ IsNone(session') /\ IsNone(routine') /\ ~HasTrackers(trackers')
             /\ IsNone(Val(last'.ret.mid).session)
             /\ IsNone(Val(last'.ret.mid).routine)
             /\ ~HasTrackers(Val(last'.ret.mid).trackers)
             /\ now' = now + FrameStep ) ]_vars

\* A stop consumed in Resting.
C11_Witness ==
    /\ last.op = "frame" /\ LastCmd = "stop"
    /\ last.ret.from = STATE_REST
    /\ orch.state = STATE_IDLE
    /\ IsNone(session) /\ IsNone(routine) /\ ~HasTrackers(trackers)


\* How often v occurs in the sequence s.
Count(s, v) == Cardinality({i \in DOMAIN s : s[i] = v})

\* C12: a frame that consumes a stop in an exercise state or in Resting
\* hands exactly one exercise log to the store, and that log holds the score
\* of every rep completed in the block so far, those of the running set
\* included (each score at least as often as it was achieved); after the
\* frame the trackers and the session are gone.
C12_FlushBeforeDiscard ==
    [][ ( /\ last'.op = "frame"
          /\ ~IsNone(last'.ret.result)
          /\ Val(last'.ret.result).intent = "stop"
          /\ orch.state \in ActiveStates \cup {STATE_REST} )
        => ( /\ Len(last'.ret.saved) = 1
             /\ orch'.saved = Append(orch.saved, last'.ret.saved[1])
             /\ \A i \in DOMAIN obs.block :
                   Count(last'.ret.saved[1].all_scores, obs.block[i])
                       >= Count(obs.block, obs.block[i])
             /\ Len(last'.ret.saved[1].all_scores) >= Len(obs.block)
             /\ IsNone(session') /\ ~HasTrackers(trackers')
             /\ IsNone(orch'.exercise_log) ) ]_vars

\* A stop consumed in the middle of a set with completed reps: the log
\* saved holds their scores.
C12_Witness ==
    /\ last.op = "frame" /\ LastCmd = "stop"
    /\ last.ret.from \in ActiveStates
    /\ Len(last.ret.saved) = 1
    /\ Len(obs.block) >= 4
    /\ Len(last.ret.saved[1].all_scores) = Len(obs.block)
    /\ ~HasTrackers(trackers)


\* C13: a frame in Resting in which check_rest_done() is true calls
\* advance_set(); if that succeeds the frame ends in the exercise state of
\* the same exercise with fresh trackers and the next set; if it fails and
\* there is a routine with another entry waiting, complete_current() has
\* counted the block and the frame ends in Announce on that entry; in every
\* other case the frame ends in Idle.
C13_RestDone ==
    [][ (last'.op = "frame" /\ last'.ret.rest_done)
        => /\ orch.state = STATE_REST
           /\ ~IsNone(last'.ret.advanced)
           /\ IF Val(last'.ret.advanced)
              THEN /\ orch'.state = orch.exercise_type
                   /\ orch'.state \in ActiveStates
                   /\ orch'.exercise_type = orch.exercise_type
                   /\ trackers' = MakeTrackers(orch.exercise_type)
                   /\ Val(session').current_set = Val(session).current_set + 1
                   /\ ~Val(session').resting /\ ~Val(session').finished
                   /\ routine' = routine
              ELSE IF ~IsNone(routine) /\ Val(routine).queue # <<>>
              THEN /\ orch'.state = STATE_ANNOUNCE
                   /\ Val(routine').current = Some(Head(Val(routine).queue))
                   /\ Val(routine').queue = Tail(Val(routine).queue)
                   /\ Val(routine').completed = Val(routine).completed + 1
                   /\ IsNone(session') /\ ~HasTrackers(trackers')
              ELSE /\ orch'.state = STATE_IDLE
                   /\ IsNone(session') /\ IsNone(routine') /\ ~HasTrackers(trackers') ]_vars

\* The rest after the last set of the routine's first entry is over and the
\* second entry is announced.
C13_Witness ==
    /\ last.op = "frame" /\ last.ret.rest_done
    /\ last.ret.advanced = Some(FALSE)
    /\ orch.state = STATE_ANNOUNCE
    /\ ~IsNone(routine)
    /\ Val(routine).current = Some(CfgY)
    /\ Val(routine).completed = 1


\* The orchestrator's state, session, routine and trackers.
Machine == [state |-> orch.state, session |-> session,
            routine |-> routine, trackers |-> trackers]

\* C14: in an exercise state and in Resting, the voice-command step of a
\* frame that consumes no result, or a result whose command is not stop
\* (start_workout, start_bicep_curl, start_lateral_raise, ready, skip, or a
\* conversation without a command), leaves state, session, routine and
\* trackers as they were.
C14_OtherIntentsIgnored ==
    [][ ( /\ last'.op = "frame"
          /\ orch.state \in ActiveStates \cup {STATE_REST}
          /\ (IsNone(last'.ret.result) \/ Val(last'.ret.result).intent # "stop") )
        => last'.ret.mid = Some(Machine) ]_vars

\* A start_workout consumed in the middle of a set: the set goes on.
C14_Witness ==
    /\ last.op = "frame" /\ LastCmd = "start_workout"
    /\ last.ret.from = STATE_CURL
    /\ Val(last.ret.mid).state = STATE_CURL
    /\ Val(last.ret.mid).trackers["L"].reps >= 2
    /\ ~IsNone(Val(last.ret.mid).session)
    /\ orch.state = STATE_CURL


\* The frame about to be recorded in last' began in Announce.
AnnounceFrame == last'.op = "frame" /\ orch.state = STATE_ANNOUNCE

\* C15 as stated: in Announce every command other than ready, skip and stop
\* (start_workout, start_bicep_curl and start_lateral_raise included) leaves
\* state, session, routine and trackers unchanged.
C15_OnlyReadySkipStop ==
    [][ ( /\ AnnounceFrame
          /\ (IsNone(last'.ret.result)
              \/ Val(last'.ret.result).intent \notin {"ready", "skip", "stop"}) )
        => last'.ret.mid = Some(Machine) ]_vars

\* C15, amended: in Announce, ready and either start-exercise command start
\* the announced exercise (whichever exercise the command names): state is
\* its exercise state, with fresh trackers and a started session of its
\* block, the routine untouched; stop ends in Idle; skip ends in Announce or
\* Idle; no result, start_workout and a conversation without a command
\* leave state, session, routine and trackers unchanged.
C15_AnnounceIntents ==
    [][ AnnounceFrame =>
          LET cmd == IF IsNone(last'.ret.result) THEN NoIntent
                     ELSE Val(last'.ret.result).intent
              mid == Val(last'.ret.mid)
          IN /\ ~IsNone(routine) /\ ~IsNone(Val(routine).current)
             /\ cmd \in {"ready", "start_bicep_curl", "start_lateral_raise"}
                  => LET cfg == Val(Val(routine).current)
                     IN /\ mid.state = EXERCISE_STATES(cfg.exercise)
                        /\ mid.trackers = MakeTrackers(mid.state)
                        /\ mid.session = Some(SessionStart(NewSession(cfg)))
                        /\ mid.routine = routine
             /\ cmd = "stop" => mid.state = STATE_IDLE
             /\ cmd = "skip" => mid.state \in {STATE_ANNOUNCE, STATE_IDLE}
             /\ cmd \in {NoIntent, "start_workout"} => last'.ret.mid = Some(Machine) ]_vars

\* start_lateral_raise consumed while a bicep curl block is announced: the
\* curl block starts.
C15_Witness ==
    /\ last.op = "frame" /\ LastCmd = "start_lateral_raise"
    /\ last.ret.from = STATE_ANNOUNCE
    /\ Val(last.ret.mid).state = STATE_CURL
    /\ orch.state = STATE_CURL
    /\ ~IsNone(session) /\ HasTrackers(trackers)


\* C16: a frame takes the oldest waiting result when there is one and
\* leaves the others in the queue, in their order; with an empty queue the
\* frame runs all the same, with no result and the queue still empty.
C16_OneResultPerFrame ==
    [][ last'.op = "frame" =>
          /\ now' = now + FrameStep
          /\ IF orch.queue = <<>>
             THEN IsNone(last'.ret.result) /\ orch'.queue = <<>>
             ELSE /\ last'.ret.result = Some(Head(orch.queue))
                  /\ orch'.queue = Tail(orch.queue)
                  /\ Len(orch'.queue) = Len(orch.queue) - 1 ]_vars

\* A frame consumed one of two waiting results; the other still waits.
C16_Witness ==
    /\ last.op = "frame"
    /\ ~IsNone(last.ret.result)
    /\ Len(orch.queue) = MaxListenerQueue - 1
    /\ orch.queue[1] # Val(last.ret.result)


\* The texts a frame passed to say() before the text of its key.
SaidBeforeKey(tr) ==
    IF tr.key = NoKey THEN tr.said ELSE SubSeq(tr.said, 1, Len(tr.said) - 1)

\* C17: a frame takes at most one string from the trackers' speech queues,
\* and takes one only if the voice coach reported itself not busy when the
\* frame reached its voice coach section and the frame's set and rest
\* management left the orchestrator in an exercise state; the string taken
\* is the one handed to the voice coach there.
C17_SpeechDrain ==
    [][ last'.op = "frame" =>
          /\ Len(last'.ret.popped) <= 1
          /\ last'.ret.popped # <<>> =>
                /\ ~last'.ret.busy
                /\ orch'.state \in ActiveStates
                /\ last'.ret.popped[1][1] \in {"L", "R"}
                /\ SaidBeforeKey(last'.ret) # <<>>
                /\ SaidBeforeKey(last'.ret)[Len(SaidBeforeKey(last'.ret))] =
                      Text("coach", "", last'.ret.popped[1][2], 0, 0) ]_vars

\* A frame took a string from the left tracker while the right tracker had
\* one queued as well, which is still there.
C17_Witness ==
    /\ last.op = "frame"
    /\ Len(last.ret.popped) = 1
    /\ last.ret.popped[1][1] = "L"
    /\ HasTrackers(trackers)
    /\ trackers["R"].speech_queue # <<>>


\* The entries of the alert dict lt under the message msg.
Entries(lt, msg) == SelectSeq(lt, LAMBDA e : e[1] = msg)

\* The update from t to t2 did not trigger msg.
Untouched(t, t2, msg) == Entries(t2.live_triggers, msg) = Entries(t.live_triggers, msg)

\* The accumulator field of t2 after an update of t without that
\* measurement: as it was, or as after construction if the update completed
\* a rep.
Kept(t, t2, field) ==
    t2[field] = IF t2.reps > t.reps THEN NewTracker(t.kind, "L")[field] ELSE t[field]

\* The alert messages that depend on the lean and on the shrug flag.
LeanAlerts == {"Stop leaning back!", "Stop swaying!", "Brace your core"}
ShrugAlerts == {"Relax traps!", "Relax traps - don't shrug!"}

\* What holds of an update from t to t2 with frame f for the measurements
\* that f lacks, the alerts of the shrug flag apart.
NullsSkipped(t, t2, f) ==
    /\ IsNone(f.lean) =>
          /\ Kept(t, t2, "peak_lean")
          /\ \A m \in LeanAlerts : Untouched(t, t2, m)
    /\ IsNone(f.sh_ear) =>
          /\ t2.sh_ear_samples = t.sh_ear_samples
          /\ t2.ref_sh_ear = t.ref_sh_ear
          /\ Kept(t, t2, "shrug_detected")
    /\ t.kind = "bicep_curl" =>
          /\ IsNone(f.wrist) => Kept(t, t2, "peak_wrist_dev")
          /\ IsNone(f.flare) =>
                Kept(t, t2, "peak_flare") /\ Untouched(t, t2, "Tuck elbow in!")
          /\ IsNone(f.sup) =>
                /\ Kept(t, t2, "min_supination")
                /\ Untouched(t, t2, "Supinate - rotate palm up!")

\* The primary angle and the measurements present are processed as in a
\* frame that has them all.
OthersProcessed(t, t2, f) ==
    LET done == t2.reps > t.reps
    IN /\ done <=> (t.phase = PHASE_UP /\ PastOpen(t, f))
       /\ t2.reps \in {t.reps, t.reps + 1}
       /\ t2.phase = (IF t.phase = PHASE_DOWN /\ PastClosed(t, f) THEN PHASE_UP
                      ELSE IF done THEN PHASE_DOWN ELSE t.phase)
       /\ (~IsNone(f.lean) /\ ~done) => t2.peak_lean = Max(t.peak_lean, Val(f.lean))
       /\ (~IsNone(f.lean) /\ Val(f.lean) > LEAN_BAD) =>
             \E i \in DOMAIN t2.live_triggers :
                t2.live_triggers[i] =
                   <<IF t.kind = "bicep_curl" THEN "Stop leaning back!"
                     ELSE "Stop swaying!", SEV_BAD, now>>
       /\ t.kind = "bicep_curl" =>
             /\ t2.cur_elbow = f.elbow
             /\ (~IsNone(f.flare) /\ ~done) =>
                   t2.peak_flare = Max(t.peak_flare, Val(f.flare))
             /\ (~IsNone(f.sup) /\ ~done) =>
                   t2.min_supination = Min(t.min_supination, Val(f.sup))
             /\ (~IsNone(f.wrist) /\ ~done) =>
                   t2.peak_wrist_dev = Max(t.peak_wrist_dev, Abs(180 - Val(f.wrist)))

\* C18 as stated: an update with a missing optional measurement leaves the
\* accumulator of that measurement as it was and triggers no live alert
\* that belongs to it, the shrug alert for a missing shoulder-ear distance
\* included.
C18_NullKeepsAndNeverAlerts ==
    [][ last'.op = "update" =>
          LET t == trackers["L"]
              t2 == trackers'["L"]
              f == last'.ret
          IN /\ IsNone(f.lean) =>
                   /\ t2.peak_lean = t.peak_lean
                   /\ \A m \in LeanAlerts : Untouched(t, t2, m)
             /\ IsNone(f.sh_ear) =>
                   /\ t2.sh_ear_samples = t.sh_ear_samples
                   /\ t2.ref_sh_ear = t.ref_sh_ear
                   /\ t2.shrug_detected = t.shrug_detected
                   /\ \A m \in ShrugAlerts : Untouched(t, t2, m)
             /\ t.kind = "bicep_curl" =>
                   /\ IsNone(f.wrist) => t2.peak_wrist_dev = t.peak_wrist_dev
                   /\ IsNone(f.flare) =>
                         /\ t2.peak_flare = t.peak_flare
                         /\ Untouched(t, t2, "Tuck elbow in!")
                   /\ IsNone(f.sup) =>
                         /\ t2.min_supination = t.min_supination
                         /\ Untouched(t, t2, "Supinate - rotate palm up!")
             /\ OthersProcessed(t, t2, f) ]_vars

\* C18, amended: an update with a missing optional measurement leaves the
\* accumulator of that measurement as it was unless the update completes a
\* rep, which resets every accumulator; it triggers no live alert from that
\* measurement, but the shrug alert is triggered again in every frame of a
\* rep in which a shrug was detected before, with or without a shoulder-ear
\* distance; the primary angle and the measurements present are processed
\* as usual.
C18_NullSkipsMetric ==
    [][ last'.op = "update" =>
          LET t == trackers["L"]
              t2 == trackers'["L"]
              f == last'.ret
          IN /\ NullsSkipped(t, t2, f)
             /\ IsNone(f.sh_ear) =>
                   \A m \in ShrugAlerts :
                      \/ Untouched(t, t2, m)
                      \/ /\ t.shrug_detected
                         /\ \E i \in DOMAIN t2.live_triggers :
                               t2.live_triggers[i] = <<m, SEV_WARN, now>>
             /\ OthersProcessed(t, t2, f) ]_vars

\* An update without any optional measurement, in the middle of a rep whose
\* accumulators and shrug flag are set: they are as before, and the shrug
\* alert carries the time of this update.
C18_Witness ==
    /\ last.op = "update"
    /\ trackers["L"].kind = "bicep_curl"
    /\ IsNone(last.ret.lean) /\ IsNone(last.ret.wrist) /\ IsNone(last.ret.sh_ear)
    /\ IsNone(last.ret.flare) /\ IsNone(last.ret.sup)
    /\ trackers["L"].peak_lean = 30
    /\ trackers["L"].peak_flare = 10
    /\ trackers["L"].min_supination = 0
    /\ trackers["L"].shrug_detected
    /\ now > 0
    /\ \E i \in DOMAIN trackers["L"].live_triggers :
          trackers["L"].live_triggers[i] = <<"Relax traps!", SEV_WARN, now>>
    /\ \E i \in DOMAIN trackers["L"].live_triggers :
          /\ trackers["L"].live_triggers[i][1] = "Stop leaning back!"
          /\ trackers["L"].live_triggers[i][3] < now


\* A phase time without a tempo flaw: not measured, or within the range.
TempoFine(x, lo, hi) == x = 0 \/ (x >= lo /\ x <= hi)

\* The update of curl tracker t with frame f completes a rep whose peak swing
\* is 10, whose elbow angle went from 55 to 145, with no lean measurement
\* and no flaw in wrist, flare, supination, shrug or tempo.
HalfRomRep(t, f, tm) ==
    /\ t.phase = PHASE_UP /\ f.elbow > CURL_BOTTOM
    /\ Min(t.min_elbow, f.elbow) = 55
    /\ Max(t.max_elbow, f.elbow) = 145
    /\ Max(t.peak_swing, f.shoulder) = 10
    /\ IsNone(f.lean) /\ t.peak_lean = 0
    /\ IsNone(f.wrist) /\ t.peak_wrist_dev = 0
    /\ IsNone(f.flare) /\ t.peak_flare = 0
    /\ IsNone(f.sup) /\ t.min_supination = 100
    /\ IsNone(f.sh_ear) /\ ~t.shrug_detected
    /\ TempoFine(t.con_time, CON_MIN, CON_MAX)
    /\ TempoFine(IF t.phase_start # 0 THEN tm - t.phase_start ELSE 0, ECC_MIN, ECC_MAX)

\* The two info-level ROM issues, in the order of the checks.
HalfRomIssues ==
    << <<"Almost full contraction - try to squeeze more", SEV_INFO>>,
       <<"Slightly short extension - straighten a bit more", SEV_INFO>> >>

\* C19: a curl rep with peak swing 10, no lean data, minimum elbow angle 55,
\* maximum elbow angle 145 and no other flaw scores
\* 100 - W_ROM_TOP \div 2 - W_ROM_BOTTOM \div 2 = 90, and its issues are
\* exactly the two info-level ROM issues.
C19_HalfRomDeductions ==
    [][ \A f \in TrackerFrames("bicep_curl") :
          ( /\ last'.op = "update"
            /\ trackers["L"].kind = "bicep_curl"
            /\ HalfRomRep(trackers["L"], f, now)
            /\ trackers'["L"] = CurlUpdate(trackers["L"], f, now) )
          => /\ trackers'["L"].reps = trackers["L"].reps + 1
             /\ trackers'["L"].last_score = 100 - W_ROM_TOP \div 2 - W_ROM_BOTTOM \div 2
             /\ trackers'["L"].last_score = 90
             /\ trackers'["L"].rep_scores = Append(trackers["L"].rep_scores, 90)
             /\ trackers'["L"].active_feedback = HalfRomIssues ]_vars

\* Such a rep has just been completed, after a slow enough lift: 90 points
\* and the two ROM issues.
C19_Witness ==
    /\ last.op = "update" /\ last.ret
    /\ trackers["L"].kind = "bicep_curl"
    /\ trackers["L"].reps = 1
    /\ trackers["L"].last_score = 90
    /\ trackers["L"].rep_scores = <<90>>
    /\ trackers["L"].active_feedback = HalfRomIssues
    /\ trackers["L"].phase_start > 0


\* In every state the score history of every tracker is as long as its rep
\* count, and after the first rep last_score is the history's last element.
C20_Inv ==
    \A side \in DOMAIN trackers :
       LET t == trackers[side]
       IN /\ Len(t.rep_scores) = t.reps
          /\ t.reps > 0 => t.last_score = t.rep_scores[t.reps]
          /\ t.reps = 0 => t.last_score = 0

\* A step leaves the history and last_score alone, or completes one rep and
\* appends that rep's score, which becomes last_score.
C20_Step ==
    \A side \in DOMAIN trackers :
       LET t == trackers[side]
           t2 == trackers'[side]
       IN \/ /\ t2.reps = t.reps
             /\ t2.rep_scores = t.rep_scores
             /\ t2.last_score = t.last_score
          \/ /\ last'.op = "update" /\ last'.ret
             /\ t2.reps = t.reps + 1
             /\ t2.rep_scores = Append(t.rep_scores, t2.last_score)

\* C20: for every tracker, in every reachable state, the score history is
\* as long as the rep count and is only ever appended to, last_score is the
\* score of the most recent completed rep, and only the completion of a rep
\* changes last_score.
C20_ScoreHistory == []C20_Inv /\ [][C20_Step]_vars

\* Two reps with different scores: the history holds both, in order, and
\* last_score is the second.
C20_Witness ==
    /\ last.op = "update" /\ last.ret
    /\ trackers["L"].reps = 2
    /\ Len(trackers["L"].rep_scores) = 2
    /\ trackers["L"].rep_scores[1] # trackers["L"].rep_scores[2]
    /\ trackers["L"].last_score = trackers["L"].rep_scores[2]


\* The primary angle of the frame of the update that produced t2: update()
\* stores it in cur_elbow (curl) or cur_shoulder_angle (lateral raise).
FrameAngle(t2) == IF t2.kind = "bicep_curl" THEN t2.cur_elbow ELSE t2.cur_shoulder_angle
AngleClosed(kind, a) == IF kind = "bicep_curl" THEN a < CURL_TOP ELSE a > RAISE_TOP
AngleOpen(kind, a) == IF kind = "bicep_curl" THEN a > CURL_BOTTOM ELSE a < RAISE_BOTTOM

\* Since the observation window began: a rep counted in a window that began
\* in phase Down, or a second rep counted in any window, had a frame past
\* the closed threshold before it; the rep count has not gone down.
C21_Inv ==
    LET t == trackers["L"]
    IN /\ t.reps >= obs.reps0
       /\ (t.reps > obs.reps0 /\ obs.phase0 = PHASE_DOWN) => obs.closed
       /\ t.reps >= obs.reps0 + 2 => obs.closed

\* An update counts a rep (exactly one, ending in phase Down) exactly when
\* the tracker was Up and the frame's primary angle is past the open
\* threshold; it goes from Down to Up exactly when the tracker was Down and
\* the angle is past the closed threshold; otherwise the phase stays.  No
\* step lowers the rep count.
C21_Step ==
    LET t == trackers["L"]
        t2 == trackers'["L"]
        a == FrameAngle(t2)
    IN /\ t2.reps >= t.reps
       /\ last'.op # "update" => t2.reps = t.reps /\ t2.phase = t.phase
       /\ last'.op = "update" =>
             /\ t2.reps \in {t.reps, t.reps + 1}
             /\ (t2.reps = t.reps + 1) <=> (t.phase = PHASE_UP /\ AngleOpen(t.kind, a))
             /\ t2.reps = t.reps + 1 => t2.phase = PHASE_DOWN
             /\ (t.phase = PHASE_DOWN /\ AngleClosed(t.kind, a)) => t2.phase = PHASE_UP
             /\ (t.phase = PHASE_DOWN /\ ~AngleClosed(t.kind, a)) => t2.phase = PHASE_DOWN
             /\ (t.phase = PHASE_UP /\ ~AngleOpen(t.kind, a)) => t2.phase = PHASE_UP

\* C21: update() counts a rep, by exactly one and returning to phase Down,
\* if and only if the tracker is Up and the frame's primary angle is past
\* the open threshold; Down -> Up fires only past the closed threshold, so
\* between two consecutive counted reps some frame was past the closed
\* threshold; the rep count never decreases.
C21_RepTransitions == []C21_Inv /\ [][C21_Step]_vars

\* Two reps counted in one window that began at rep 0: the second rep has
\* just been counted by a frame past the open threshold, and a frame past
\* the closed threshold was seen.
C21_Witness ==
    /\ last.op = "update"
    /\ obs.reps0 = 0 /\ obs.phase0 = PHASE_DOWN
    /\ trackers["L"].reps = 2
    /\ trackers["L"].phase = PHASE_DOWN
    /\ AngleOpen(trackers["L"].kind, FrameAngle(trackers["L"]))
    /\ obs.closed /\ obs.open


\* C22: an update that completes a rep leaves consecutive_bad as it was when
\* the rep's score is at most INJURY_CRITICAL_SCORE; otherwise it adds one
\* when the score is at most INJURY_BAD_SCORE, and takes one away, but not
\* below zero, when the score is above INJURY_BAD_SCORE.
C22_StreakRule ==
    [][ (last'.op = "update" /\ last'.ret) =>
          LET cb == trackers["L"].consecutive_bad
              score == trackers'["L"].last_score
          IN trackers'["L"].consecutive_bad =
                IF score <= INJURY_CRITICAL_SCORE THEN cb
                ELSE IF score <= INJURY_BAD_SCORE THEN cb + 1
                ELSE Max(0, cb - 1) ]_vars


\* C23: within one rest period, once a frame has given the rest-break
\* warning to a voice coach with a client and the voice worker has taken it, the next frame does not give
\* it again while the rest goes on: a frame warns only when motion is
\* detected, so two warning frames in a row are one burst of motion, which
\* warns at most once.
C23_OneWarningPerBurst ==
    [][ ( /\ last'.op = "frame"
          /\ last.ret.warned
          /\ orch.state = STATE_REST
          /\ orch.voice.client /\ IsNone(orch.voice.pending) )
        => ~(last'.ret.warned /\ orch'.state = STATE_REST) ]_vars


\* C24: once the session is finished (only advance_set() finishes it), no
\* operation of the session (advance_set, begin_rest, start,
\* should_warn_rest_break, reset_rest_warn, the reads) changes current_set,
\* resting or finished.
C24_FinishedTerminal ==
    [][ session.finished =>
          /\ session'.current_set = session.current_set
          /\ session'.resting = session.resting
          /\ session'.finished = session.finished ]_vars


\* The frame of the update step from the unprimed to the primed state.
LiveFrame == last'.ret

\* The messages get_live_alerts returned in this state.
Returned == {last.ret[i][1] : i \in 1..Len(last.ret)}

\* Some frame's own measurement was past the threshold of msg no longer than
\* the grace window ago.
SeenLately(msg) == msg \in DOMAIN obs.seen /\ now - obs.seen[msg] <= LIVE_GRACE

\* The update from t to t2 at time tm triggered msg.
Triggered(t2, msg, tm) ==
    \E i \in 1..Len(t2.live_triggers) :
        t2.live_triggers[i][1] = msg /\ t2.live_triggers[i][3] = tm

C25_Step ==
    last'.op = "update" =>
        LET t == trackers["L"]
            t2 == trackers'["L"]
            flagged == t.shrug_detected
                       \/ FramePast(t.kind, CHOOSE m \in ShrugAlerts : m \in LiveMessages(t.kind),
                                    LiveFrame, t.ref_sh_ear)
        IN /\ \A m \in LiveMessages(t.kind) \ ShrugAlerts :
                 IF FramePast(t.kind, m, LiveFrame, t.ref_sh_ear)
                 THEN Triggered(t2, m, now)
                 ELSE Untouched(t, t2, m)
           /\ \A m \in LiveMessages(t.kind) \cap ShrugAlerts :
                 IF flagged THEN Triggered(t2, m, now) ELSE Untouched(t, t2, m)
           /\ t2.shrug_detected = (flagged /\ t2.reps = t.reps)

C25_Read ==
    last.op = "get_live_alerts" =>
        /\ \A m \in LiveMessages(trackers["L"].kind) \ ShrugAlerts :
              m \in Returned <=> SeenLately(m)
        /\ \A m \in LiveMessages(trackers["L"].kind) \cap ShrugAlerts :
              SeenLately(m) => m \in Returned

C26_EachRepOnce ==
    [][ (last'.op = "frame" /\ last'.ret.saved # <<>>) =>
          \A i \in DOMAIN last'.ret.saved :
             LET log == last'.ret.saved[i]
             IN /\ Len(log.all_scores) = Len(obs.block)
                /\ \A s \in Range(obs.block) :
                      Count(log.all_scores, s) = Count(obs.block, s)
                /\ ~IsNone(session)
                /\ Len(log.set_reps) <= Val(session).current_set ]_vars


\* The tracker of side s counted a rep in the step; the strings queued for
\* the latest rep of a tracker.
RepInStep(s) ==
    RepInFrame([trackers |-> trackers], [trackers |-> trackers'], s)

RepSpeech(t) == BuildSpeechQueue(t.active_feedback)

\* C27 as stated: the spoken feedback of a rep that completed while the
\* voice coach was not busy stays owed, frame after frame, until a frame
\* takes a string from that tracker's queue or a newer rep on that tracker
\* replaces the queue, the rep that completes a set included (frames that
\* consume a stop apart).
C27_FeedbackOffered ==
    [][ (last'.op = "frame" /\ LastCmd' # "stop") =>
          \A s \in obs.owed :
             \/ s \in obs'.owed
             \/ PoppedFrom(last'.ret, s)
             \/ RepInStep(s) ]_vars

\* C27 as amended: a rep that completes while the voice coach is not busy in
\* a frame that leaves the orchestrator in an exercise state has a string
\* taken and passed to the voice coach in that frame (its own first string
\* if it is the left tracker's, or the right tracker's while the left queue
\* is empty), and feedback still owed stays queued until a later frame takes
\* it, a newer rep replaces it, a stop ends the block or the rest ends.  The
\* frame of the rep that completes a set ends in Resting and takes nothing,
\* no frame in Resting takes anything, and the frame that ends the rest
\* leaves no tracker with a queue: the feedback of the set-completing rep is
\* never offered.
C27_Step ==
    last'.op = "frame" =>
        /\ \A s \in obs.owed :
              \/ s \in obs'.owed
              \/ PoppedFrom(last'.ret, s)
              \/ RepInStep(s)
              \/ LastCmd' = "stop"
              \/ orch.state = STATE_REST /\ orch'.state # STATE_REST
        /\ (RepInStep("L") /\ ~last'.ret.busy /\ orch'.state \in ActiveStates)
              => /\ last'.ret.popped = << <<"L", Head(RepSpeech(trackers'["L"]))>> >>
                 /\ trackers'["L"].speech_queue = Tail(RepSpeech(trackers'["L"]))
        /\ ( /\ RepInStep("R") /\ ~RepInStep("L")
             /\ trackers["L"].speech_queue = <<>>
             /\ ~last'.ret.busy /\ orch'.state \in ActiveStates )
              => last'.ret.popped = << <<"R", Head(RepSpeech(trackers'["R"]))>> >>
        /\ ( /\ obs.owed # {} /\ ~last'.ret.busy
             /\ orch.state \in ActiveStates /\ orch'.state \in ActiveStates )
              => last'.ret.popped # <<>>
        /\ last'.ret.set_done =>
              /\ orch'.state = STATE_REST
              /\ last'.ret.popped = <<>>
              /\ \A s \in {"L", "R"} :
                    RepInStep(s) => /\ trackers'[s].speech_queue = RepSpeech(trackers'[s])
                                    /\ (~last'.ret.busy => s \in obs'.owed)
        /\ orch.state = STATE_REST =>
              /\ last'.ret.popped = <<>>
              /\ orch'.state # STATE_REST =>
                    /\ obs'.owed = {}
                    /\ HasTrackers(trackers') =>
                          \A s \in {"L", "R"} : trackers'[s].speech_queue = <<>>

C27_OfferedInExerciseState == [][C27_Step]_vars

\* The frame of a rep that completed a set, with the voice coach not busy:
\* the orchestrator is Resting, nothing was taken and the rep's strings are
\* still in the queue.
C27_Witness ==
    /\ last.op = "frame"
    /\ last.ret.set_done
    /\ last.ret.popped = <<>>
    /\ orch.state = STATE_REST
    /\ ~last.ret.busy
    /\ obs.owed # {}
    /\ \E s \in obs.owed : trackers[s].speech_queue = RepSpeech(trackers[s])


\* A tracker pair as _make_trackers returns it for the exercise state st: no
\* rep counted, phase Down, so that the session s does not find its set
\* complete.
FreshPair(tr, st, s) ==
    /\ tr = MakeTrackers(st)
    /\ \A side \in {"L", "R"} : tr[side].reps = 0 /\ tr[side].phase = PHASE_DOWN
    /\ ~IsNone(s)
    /\ Val(s).reps_per_set >= 1 => ~CheckSetComplete(Val(s), tr)

\* C28: a frame that enters an exercise state, from Idle or Announce in its
\* voice-command step or from Resting at the end of a rest, installs a fresh
\* tracker pair (no rep counted, phase Down) for which check_set_complete is
\* false; a frame finds a set complete only with a tracker that counted
\* reps_per_set reps, and the trackers' counts are the reps completed in the
\* block since the sets recorded before.
C28_Step ==
    last'.op = "frame" =>
        LET mid == Val(last'.ret.mid)
        IN /\ (orch.state \notin ActiveStates /\ mid.state \in ActiveStates)
                 => /\ FreshPair(mid.trackers, mid.state, mid.session)
                    /\ ~last'.ret.set_done
           /\ (orch.state = STATE_REST /\ orch'.state \in ActiveStates)
                 => /\ FreshPair(trackers', orch'.state, session')
                    /\ Val(session').current_set = Val(session).current_set + 1
           /\ last'.ret.set_done
                 => /\ \E side \in {"L", "R"} :
                          trackers'[side].reps >= Val(session').reps_per_set
                    /\ ~IsNone(orch.exercise_log)
                    /\ trackers'["L"].reps + trackers'["R"].reps
                          = Len(obs'.block) - SumSeq(Val(orch.exercise_log).set_reps)

C28_FreshTrackersOnEntry == [][C28_Step]_vars

\* The second set of a block has just been completed by trackers that
\* counted the reps of that set only.
C28_Witness ==
    /\ last.op = "frame"
    /\ last.ret.set_done
    /\ ~IsNone(session) /\ Val(session).current_set = 2
    /\ trackers["L"].reps = Val(session).reps_per_set
    /\ Len(obs.block) = 4 * Val(session).reps_per_set


\* The exercises a routine still has to do: the announced one and the queue.
ToDo(r) ==
    Range(r.queue) \cup (IF IsNone(r.current) THEN {} ELSE {Val(r.current)})

\* C29: in Announce there is a routine with an announced exercise, and a
\* frame that consumes a skip in Announce ends, already after its
\* voice-command step, in Announce with an announced exercise: the head of
\* the queue, or the skipped exercise itself if the queue was empty, the
\* skipped exercise having gone to the back of the queue; the exercises still
\* to do and the number completed are as before.
C29_Inv ==
    orch.state = STATE_ANNOUNCE =>
        ~IsNone(routine) /\ ~IsNone(Val(routine).current)

C29_Step ==
    ( /\ last'.op = "frame"
      /\ orch.state = STATE_ANNOUNCE
      /\ LastCmd' = "skip" )
    => LET r == Val(routine)
           r2 == Val(routine')
       IN /\ Val(last'.ret.mid).state = STATE_ANNOUNCE
          /\ orch'.state = STATE_ANNOUNCE
          /\ ~IsNone(routine') /\ ~IsNone(r2.current)
          /\ r2.current = Some(Head(Append(r.queue, Val(r.current))))
          /\ r2.queue = Tail(Append(r.queue, Val(r.current)))
          /\ r.queue = <<>> => r2.current = r.current
          /\ ToDo(r2) = ToDo(r)
          /\ Len(r2.queue) = Len(r.queue)
          /\ r2.completed = r.completed /\ ~r2.done
          /\ orch'.exercise_log = Some(NewExerciseLog(Val(r2.current).exercise))

C29_SkipStaysInAnnounce == []C29_Inv /\ [][C29_Step]_vars

\* A second skip in a routine of two exercises: the exercise skipped first
\* is announced again and the other one waits in the queue.
C29_Witness ==
    /\ last.op = "frame" /\ LastCmd = "skip"
    /\ last.ret.from = STATE_ANNOUNCE
    /\ orch.state = STATE_ANNOUNCE
    /\ Val(routine).current = Some(CfgX)
    /\ Val(routine).queue = <<CfgY>>


\* C30 as stated: the update() that completes a rep leaves every per-rep
\* accumulator at its value after construction, so that two trackers that
\* differ in what they measured before a rep completed, and get the same
\* frames from then on, give every later rep the same score.
C30_NothingCarriesOver ==
    /\ [][ (last'.op = "update" /\ last'.ret) =>
             \A side \in {"L", "R"} : \A field \in AccFields(trackers[side].kind) :
                trackers'[side][field] = NewTracker(trackers[side].kind, side)[field] ]_vars
    /\ [](trackers["L"].reps >= 2 => trackers["L"].last_score = trackers["R"].last_score)

\* C30 as amended: the update() that completes a rep leaves every per-rep
\* accumulator at its value after construction (after the rep was scored
\* with the values accumulated up to and including that frame), so that two
\* trackers with the same shrug reference that differ in what they
\* accumulated before a rep completed, and get the same frames from then on,
\* give every later rep the same score and the same issues.
C30_Step ==
    (last'.op = "update" /\ last'.ret) =>
        \A side \in {"L", "R"} :
           LET t == trackers[side]
               t2 == trackers'[side]
           IN /\ \A field \in AccFields(t.kind) :
                    t2[field] = NewTracker(t.kind, side)[field]
              /\ t2.reps = t.reps + 1 /\ t2.phase = PHASE_DOWN
              /\ t2.phase_start = now
              /\ t2.ref_sh_ear = t.ref_sh_ear \/ Len(t.sh_ear_samples) < SHRUG_SAMPLES
              /\ t2.rep_scores = Append(t.rep_scores, t2.last_score)

C30_Inv ==
    (obs.same_ref /\ trackers["L"].reps >= 2) =>
        /\ trackers["L"].last_score = trackers["R"].last_score
        /\ trackers["L"].active_feedback = trackers["R"].active_feedback

C30_AccumulatorsReset == [][C30_Step]_vars /\ []C30_Inv

\* Two trackers with the same shrug reference whose first reps were scored
\* differently and whose second reps, flawed as well, were scored alike.
C30_Witness ==
    /\ obs.same_ref
    /\ trackers["L"].reps = 2 /\ trackers["R"].reps = 2
    /\ trackers["L"].rep_scores[1] # trackers["R"].rep_scores[1]
    /\ trackers["L"].last_score = trackers["R"].last_score
    /\ trackers["L"].last_score < 100
    /\ last.op = "update" /\ last.ret


\* The issues of the tempo checks of a tracker class, by half-phase, and the
\* points each issue of _finish_rep costs.
LiftTempoIssues(kind) ==
    IF kind = "bicep_curl"
    THEN {"Lifting too fast - slow down", "Lifting too slow - may lose tension"}
    ELSE {"Raising too fast - slow down", "Raising too slow"}

LowerTempoIssues(kind) ==
    IF kind = "bicep_curl"
    THEN {"Lowering too fast - control the negative", "Lowering too slow"}
    ELSE {"Lowering too fast - control it", "Lowering too slow"}

IssueWeight(kind, msg) ==
    IF kind = "bicep_curl"
    THEN CASE msg = "Elbow swinging a lot - pin it to your side" -> W_ELBOW_PIN
           [] msg = "Elbow drifting forward - keep it pinned" -> W_ELBOW_PIN \div 2
           [] msg = "Slight elbow drift - try to keep it tighter" -> W_ELBOW_PIN \div 4
           [] msg = "Too much body lean - you're using momentum" -> W_LEAN
           [] msg = "Leaning back a bit - brace your core" -> W_LEAN \div 2
           [] msg = "Minor torso sway detected" -> W_LEAN \div 4
           [] msg = "Curl higher - squeeze at the top" -> W_ROM_TOP
           [] msg = "Almost full contraction - try to squeeze more" -> W_ROM_TOP \div 2
           [] msg = "Extend your arm more at the bottom" -> W_ROM_BOTTOM
           [] msg = "Slightly short extension - straighten a bit more" -> W_ROM_BOTTOM \div 2
           [] msg = "Shoulder hiking up - relax your traps" -> W_SHRUG
           [] msg = "Elbow flaring out - keep it tucked in" -> W_FLARE
           [] msg = "Slight elbow flare - tuck it closer" -> W_FLARE \div 2
           [] msg = "Rotate palm up - supinate your grip" -> W_SUPINATION
           [] msg = "Grip slightly neutral - supinate more" -> W_SUPINATION \div 2
           [] msg = "Lifting too fast - slow down" -> W_TEMPO_CON
           [] msg = "Lifting too slow - may lose tension" -> W_TEMPO_CON \div 2
           [] msg = "Lowering too fast - control the negative" -> W_TEMPO_ECC
           [] msg = "Lowering too slow" -> W_TEMPO_ECC \div 3
           [] OTHER -> 0
    ELSE CASE msg = "Raise arms higher - reach shoulder level" -> W_HEIGHT
           [] msg = "Almost there - raise a bit higher" -> W_HEIGHT \div 2
           [] msg = "Arms too high - stop at shoulder level" -> W_OVER_RAISE
           [] msg = "Arms too bent - extend elbows more" -> W_ELBOW_BEND
           [] msg = "Elbows bending a bit much" -> W_ELBOW_BEND \div 3
           [] msg = "Don't lock elbows - keep a slight bend" -> W_ELBOW_BEND \div 4
           [] msg = "Traps taking over - relax shoulders down" -> RAISE_W_SHRUG
           [] msg = "Too much body sway - using momentum" -> RAISE_W_LEAN
           [] msg = "Slight lean - tighten your core" -> RAISE_W_LEAN \div 2
           [] msg = "Minor sway detected" -> RAISE_W_LEAN \div 4
           [] msg = "Raising too fast - slow down" -> W_TEMPO_UP
           [] msg = "Raising too slow" -> W_TEMPO_UP \div 3
           [] msg = "Lowering too fast - control it" -> W_TEMPO_DOWN
           [] msg = "Lowering too slow" -> W_TEMPO_DOWN \div 3
           [] OTHER -> 0

\* The messages of the feedback list fb, and the points they cost together.
Messages(fb) == {fb[i][1] : i \in DOMAIN fb}
Deducted(kind, fb) == SumSeq([i \in DOMAIN fb |-> IssueWeight(kind, fb[i][1])])

\* The time of the first half-phase that tracker t has recorded for the rep
\* under way, and the time of the second half-phase if the rep completes at
\* clock tm: 0 when there is no recorded phase start.
LiftTime(t) == IF t.kind = "bicep_curl" THEN t.con_time ELSE t.up_time
LowerTime(t, tm) == IF t.phase_start # 0 THEN tm - t.phase_start ELSE 0

\* C31: a completed rep has an issue of the lifting tempo only if its lifting
\* time is positive and an issue of the lowering tempo only if its lowering
\* time is positive, and its score is 100 less the points of the issues it
\* lists (floored at 0), so that a half-phase with time 0 costs nothing; a
\* positive time below the minimum does bring its issue.
C31_Step ==
    (last'.op = "update" /\ last'.ret) =>
        LET t == trackers["L"]
            t2 == trackers'["L"]
            fb == t2.active_feedback
        IN /\ LiftTime(t) <= 0 => Messages(fb) \cap LiftTempoIssues(t.kind) = {}
           /\ LowerTime(t, now) <= 0 => Messages(fb) \cap LowerTempoIssues(t.kind) = {}
           /\ t.reps = 0 => LiftTime(t) = 0
           /\ t2.last_score = Max(0, 100 - Deducted(t.kind, fb))
           /\ (LiftTime(t) > 0
                 /\ LiftTime(t) < (IF t.kind = "bicep_curl" THEN CON_MIN ELSE UP_MIN))
                 => Messages(fb) \cap LiftTempoIssues(t.kind) # {}

C31_NoTempoWithoutTime == [][C31_Step]_vars

\* The first rep of a tracker, completed half a second after it began with
\* no phase start on record: no tempo issue, full score.
C31_Witness ==
    /\ last.op = "update" /\ last.ret
    /\ trackers["L"].reps = 1
    /\ now > 0
    /\ trackers["L"].phase_start = now
    /\ trackers["L"].last_score = 100
    /\ trackers["L"].active_feedback = <<<<"Perfect rep!", SEV_GOOD>>>>


\* The issues of the rep a tracker has just scored: its feedback, unless
\* that is the placeholder shown for a rep without issues.
RepIssues(t) ==
    IF t.active_feedback = <<<<"Perfect rep!", SEV_GOOD>>>> THEN <<>> ELSE t.active_feedback

VoicedIssues(t) ==
    {i \in DOMAIN RepIssues(t) : RepIssues(t)[i][2] \in {SEV_BAD, SEV_WARN}}

SeverityOf(t, msg) ==
    RepIssues(t)[CHOOSE i \in DOMAIN RepIssues(t) : RepIssues(t)[i][1] = msg][2]

\* C32: right after every completed rep the speech queue is never empty; it
\* holds exactly the rep's bad- and warn-severity messages, each once, bad
\* before warn, or exactly one generic positive phrase when the rep has no
\* bad or warn issue (also when it has info issues only).
C32_Step ==
    (last'.op = "update" /\ last'.ret) =>
        LET t2 == trackers'["L"]
            q == t2.speech_queue
        IN /\ q # <<>>
           /\ VoicedIssues(t2) = {} => q = <<"Good job!">>
           /\ VoicedIssues(t2) # {} =>
                 /\ Len(q) = Cardinality(VoicedIssues(t2))
                 /\ Range(q) = {RepIssues(t2)[i][1] : i \in VoicedIssues(t2)}
                 /\ \A i, j \in DOMAIN q :
                       i < j => ~ (SeverityOf(t2, q[i]) = SEV_WARN
                                   /\ SeverityOf(t2, q[j]) = SEV_BAD)

C32_SpeechQueueAfterRep == [][C32_Step]_vars

\* A rep with bad, warn and info issues: the queue holds the bad messages,
\* then the warn messages, and not the info message.
C32_Witness ==
    /\ last.op = "update" /\ last.ret
    /\ \E i, j \in DOMAIN trackers["L"].speech_queue :
          /\ i < j
          /\ SeverityOf(trackers["L"], trackers["L"].speech_queue[i]) = SEV_BAD
          /\ SeverityOf(trackers["L"], trackers["L"].speech_queue[j]) = SEV_WARN
    /\ \E k \in DOMAIN RepIssues(trackers["L"]) : RepIssues(trackers["L"])[k][2] = SEV_INFO
    /\ Len(trackers["L"].speech_queue) < Len(RepIssues(trackers["L"]))


\* The first SHRUG_SAMPLES entries of a list of samples, and the reference
\* they give: their maximum, 0.0 while there is none.
FirstSamples(s) == SubSeq(s, 1, Min(Len(s), SHRUG_SAMPLES))

ReferenceOf(s) == IF s = <<>> THEN 0 ELSE MaxSeq(FirstSamples(s))

\* The samples _update_shrug_ref takes: non-null and at least 0.01.
ValidSamples(s) == SelectSeq(s, LAMBDA x : x >= 1)

\* One update() seen against the samples counted before (s) and after (s2)
\* it: the reference is the maximum of the first 30 samples at most, it is
\* left alone once 30 samples are in, and a deviation is flagged only then.
CalibrationStep(s, s2) ==
    LET t == trackers["L"]
        t2 == trackers'["L"]
    IN /\ t2.ref_sh_ear = ReferenceOf(s2)
       /\ Len(s) >= SHRUG_SAMPLES => t2.ref_sh_ear = t.ref_sh_ear
       /\ (t2.shrug_detected /\ ~ t.shrug_detected) => Len(s) >= SHRUG_SAMPLES

\* C33 as stated, every non-null sample counting as valid: the detector
\* never flags before 30 non-null samples are in, the reference is the
\* running maximum of the non-null samples during calibration, and it never
\* changes after the 30th.
C33_NonNullSamples == [][CalibrationStep(obs.seen, obs'.seen)]_vars

\* C33 (amended): the same with the valid samples being those that are
\* non-null and at least 0.01; smaller ones are skipped like missing ones.
C33_ShrugCalibration ==
    [][CalibrationStep(ValidSamples(obs.seen), ValidSamples(obs'.seen))]_vars

\* The calibration ended on a maximum of 0.30 taken from the 30th sample,
\* a later sample of 0.10 is flagged, and the reference is still 0.30.
C33_Witness ==
    /\ Len(trackers["L"].sh_ear_samples) = SHRUG_SAMPLES
    /\ trackers["L"].sh_ear_samples[SHRUG_SAMPLES] = 30
    /\ trackers["L"].ref_sh_ear = 30
    /\ trackers["L"].shrug_detected
    /\ last.op = "update" /\ last.ret = Some(10)
    /\ Len(ValidSamples(obs.seen)) > SHRUG_SAMPLES


\* C34: at the end of every frame a session exists if and only if the state
\* is an exercise state or Resting; that session is not finished and is
\* resting exactly in Resting; in Idle there is no session, no routine, no
\* tracker and no pending exercise log.
C34_SessionMatchesState ==
    /\ ~IsNone(session) <=> orch.state \in ActiveStates \cup {STATE_REST}
    /\ ~IsNone(session) =>
          /\ ~Val(session).finished
          /\ Val(session).resting <=> orch.state = STATE_REST
    /\ orch.state = STATE_IDLE =>
          /\ IsNone(session)
          /\ IsNone(routine)
          /\ ~HasTrackers(trackers)
          /\ IsNone(orch.exercise_log)

          /\ IsNone(orch.exercise_log)

\* A frame in Resting found the rest of the last set over and ended the
\* block of an ad-hoc exercise: the frame ends in Idle with nothing left.
C34_Witness ==
    /\ last.op = "frame" /\ last.ret.rest_done
    /\ last.ret.advanced = Some(FALSE)
    /\ orch.state = STATE_IDLE
    /\ IsNone(session) /\ IsNone(routine) /\ IsNone(orch.exercise_log)
    /\ ~HasTrackers(trackers)


\* In Announce a routine exists, has an announced exercise, and the pending
\* exercise log is a log for that exercise.
C35_Inv ==
    orch.state = STATE_ANNOUNCE =>
        /\ ~IsNone(routine)
        /\ ~IsNone(Val(routine).current)
        /\ ~IsNone(orch.exercise_log)
        /\ Val(orch.exercise_log).exercise = Val(Val(routine).current).exercise

\* A frame that consumes a ready in Announce is, after its voice-command
\* step, in the exercise state of the announced exercise with a started
\* session built from that entry and a fresh tracker pair; the routine is
\* untouched and the log of the announced exercise stays pending.
C35_Step ==
    ( /\ last'.op = "frame"
      /\ orch.state = STATE_ANNOUNCE
      /\ LastCmd' = "ready" )
    => LET cfg == Val(Val(routine).current)
           mid == Val(last'.ret.mid)
       IN /\ mid.state = EXERCISE_STATES(cfg.exercise)
          /\ mid.state \in ActiveStates
          /\ ~IsNone(mid.session)
          /\ Val(mid.session).total_sets = cfg.sets
          /\ Val(mid.session).reps_per_set = cfg.reps
          /\ Val(mid.session).rest_seconds = cfg.rest_seconds
          /\ Val(mid.session).current_set = 1
          /\ ~Val(mid.session).resting /\ ~Val(mid.session).finished
          /\ mid.trackers = MakeTrackers(mid.state)
          /\ mid.routine = routine
          /\ orch'.state \in ActiveStates \cup {STATE_REST}
          /\ ~IsNone(orch'.exercise_log)
          /\ Val(orch'.exercise_log).exercise = cfg.exercise

\* C35: whenever the orchestrator is in Announce a routine exists, its
\* current exercise is non-null and an exercise log for that exercise is
\* pending, and a ready consumed in Announce always moves to the exercise
\* state with a session built from the announced exercise.
C35_ReadyStartsAnnounced == []C35_Inv /\ [][C35_Step]_vars

\* The second entry of a routine was announced after a skip of the first,
\* and a ready started it: the state is that of the second entry.
C35_Witness ==
    /\ last.op = "frame" /\ LastCmd = "ready"
    /\ last.ret.from = STATE_ANNOUNCE
    /\ ~IsNone(routine)
    /\ Val(routine).current = Some(CfgY)
    /\ Val(routine).queue = <<CfgX>>
    /\ orch.state = EXERCISE_STATES(CfgY.exercise)
    /\ Val(session).current_set = 1
    /\ Val(orch.exercise_log).exercise = CfgY.exercise


\* The exercises a routine accounts for: completed, queued and current.
Accounted(r) == r.completed + Len(r.queue) + (IF IsNone(r.current) THEN 0 ELSE 1)

\* While a routine exists it accounts for every exercise loaded from the
\* workout file.
C36_Inv ==
    ~IsNone(routine) =>
        /\ ~IsNone(orch.csv)
        /\ Val(routine).total = Len(Val(orch.csv))
        /\ Accounted(Val(routine)) = Val(routine).total

\* What a frame does to the routine: nothing; drop it; load it and advance
\* from no current exercise; or, with a current exercise, skip_current() or
\* complete_current() followed by advance().
C36_Step ==
    last'.op = "frame" =>
        \/ routine' = routine
        \/ IsNone(routine')
        \/ /\ IsNone(routine)
           /\ routine' = Some(RoutineAdvance(NewRoutine(Val(orch.csv))).r)
        \/ /\ ~IsNone(routine)
           /\ ~IsNone(Val(routine).current)
           /\ \/ /\ orch.state = STATE_ANNOUNCE
                 /\ routine' = Some(RoutineAdvance(SkipCurrent(Val(routine))).r)
              \/ /\ orch.state = STATE_REST
                 /\ routine' = Some(RoutineAdvance(CompleteCurrent(Val(routine))).r)

\* C36: in every state reachable through the orchestrator the routine
\* satisfies completed + queue length + (1 if current is set) = exercises
\* loaded; the orchestrator calls advance() only when no exercise is current
\* (on a new routine, after skip_current() or after complete_current()) and
\* complete_current() only when one is.
C36_OrchestratorAccounting == []C36_Inv /\ [][C36_Step]_vars

\* The first block of a routine of two is over: one exercise completed, the
\* other announced, the queue empty.
C36_Witness ==
    /\ last.op = "frame" /\ last.ret.rest_done
    /\ orch.state = STATE_ANNOUNCE
    /\ ~IsNone(routine)
    /\ Val(routine).total = 2
    /\ Val(routine).completed = 1
    /\ Val(routine).current = Some(CfgY)
    /\ Val(routine).queue = <<>>


\* C37 as stated: a string passed to say() on a frame where is_busy was
\* false is not replaced by a later say() of the same frame before the
\* worker has picked it up.
C37_NoMessageLost ==
    [][ (last'.op = "frame" /\ ~orch.voice.busy /\ ~last'.ret.busy)
        => last'.ret.lost = 0 ]_vars

C37_Step ==
    /\ last'.op = "frame" =>
          /\ orch.voice.client =>
                orch'.voice.pending \in
                   {None, IF last'.ret.said = <<>> THEN orch.voice.pending
                          ELSE Some(last'.ret.said[Len(last'.ret.said)])}
          /\ ~orch.voice.client =>
                /\ IsNone(orch'.voice.pending) /\ ~orch'.voice.taken /\ ~orch'.voice.busy
                /\ last'.ret.lost = 0
          /\ last'.ret.said # <<>> => last'.ret.lost <= Len(last'.ret.said) - 1
    /\ (last'.op # "frame" /\ orch'.voice.pending # orch.voice.pending) =>
          /\ last'.op = "voice_take"
          /\ ~IsNone(orch.voice.pending) /\ ~orch.voice.taken /\ ~orch.voice.busy
          /\ IsNone(orch'.voice.pending) /\ orch'.voice.taken

\* C37 (amended): only the latest message is kept.  With a client, a string
\* passed to say() stays pending until the worker picks it up or a later
\* say() replaces it: after a frame the pending string, if the worker has
\* not picked it up, is the last one the frame passed to say(), or the one
\* pending before if it passed none; of the strings a frame passed, only
\* the last cannot have been replaced within the frame; and outside the
\* frames only the worker's pick-up removes the pending string.  Without a
\* client no string is ever pending, taken or spoken.
C37_LatestMessageKept == [][C37_Step]_vars

\* On a frame where the coach was not busy the answer to the user was passed
\* to say() and then replaced by a tracker's feedback before any pick-up.
C37_Witness ==
    /\ last.op = "frame"
    /\ ~last.ret.busy
    /\ Len(last.ret.said) = 2
    /\ last.ret.said[1].tag = "chat"
    /\ last.ret.popped # <<>>
    /\ orch.voice.pending = Some(last.ret.said[2])
    /\ last.ret.said[2].tag = "coach"
    /\ last.ret.lost = 1


\* C38: the results reach the frame loop in the order of the utterances
\* they come from, whatever the interleaving of the processing threads.
C38_UtteranceOrder ==
    \A i, j \in DOMAIN obs.received : i < j => obs.received[i] < obs.received[j]


\* A frame that begins in Resting at or after rest_start + rest_seconds
\* leaves Resting.
C39_Step ==
    ( /\ last'.op = "frame"
      /\ orch.state = STATE_REST
      /\ now' >= Val(session).rest_start + Val(session).rest_seconds )
    => /\ orch'.state # STATE_REST
       /\ last'.ret.rest_done

\* C39: with frames being processed and the clock advancing, and without
\* any intent, the orchestrator in Resting eventually leaves Resting, no
\* later than the first frame at or after rest_start + rest_seconds.
C39_RestEnds ==
    /\ (orch.state = STATE_REST) ~> (orch.state # STATE_REST)
    /\ [][C39_Step]_vars

\* The rest after the first set of an ad-hoc block ended on a frame later
\* than rest_start + rest_seconds, and the second set began.
C39_Witness ==
    /\ last.op = "frame" /\ last.ret.rest_done
    /\ last.ret.from = STATE_REST
    /\ orch.state = STATE_CURL
    /\ Val(session).current_set = 2
    /\ now > Val(session).rest_start + Val(session).rest_seconds
    /\ IsNone(last.ret.result)


\* The issues of the full-weight range-of-motion deductions.
FullRomIssues ==
    {"Curl higher - squeeze at the top", "Extend your arm more at the bottom"}

\* C40: for every rep completed through CurlTracker.update() the minimum
\* elbow angle of the rep is below the closed threshold and its maximum,
\* the completing frame included, above the open threshold when the rep is
\* scored, so no full-weight range-of-motion issue is given, the score is
\* at least 10, and the clamp max(score, 0) leaves the value as it is.
C40_Step ==
    (last'.op = "update" /\ last'.ret) =>
        LET t == trackers["L"]
            t2 == trackers'["L"]
            fb == t2.active_feedback
        IN /\ t.min_elbow < CURL_TOP
           /\ Max(t.max_elbow, t2.cur_elbow) > CURL_BOTTOM
           /\ Messages(fb) \cap FullRomIssues = {}
           /\ t2.last_score >= 10
           /\ 100 - Deducted("bicep_curl", fb) >= 0
           /\ t2.last_score = 100 - Deducted("bicep_curl", fb)

C40_RomReachedAtScoring == [][C40_Step]_vars

\* A rep with every fault at once, both half-weight range-of-motion issues
\* included, is scored 10.
C40_Witness ==
    /\ last.op = "update" /\ last.ret
    /\ trackers["L"].last_score = 10
    /\ Len(trackers["L"].active_feedback) = 9
    /\ {"Almost full contraction - try to squeeze more",
        "Slightly short extension - straighten a bit more"}
          \subseteq Messages(trackers["L"].active_feedback)

=============================================================================
